---------------------------- MODULE Spec2Model ----------------------------
(***************************************************************************)
(* A model of the disk B-tree of src/btree.go.                             *)
(*                                                                         *)
(* The tree file is a sequence of PAGE_SIZE pages; page p holds the gob    *)
(* encoding of one Node.  A page is modelled by the Node it decodes to     *)
(* (its stored Page field included, which need not be the page's place in  *)
(* the file), or by Hole when it does not decode.  Every public operation  *)
(* (Put, Delete, Remove) is one action, computed from the code's reads and *)
(* writes of pages; Get and Range are queries on the file.                 *)
(*                                                                         *)
(* An operation ends "ok", with "error" (the code returned an error, the   *)
(* writes made before it stay in the file), or with "crash" (a Go panic:   *)
(* index out of range, or unbounded recursion / an endless loop on a       *)
(* cyclic page structure).                                                 *)
(*                                                                         *)
(* Spec is a client that calls Put, Delete and Remove one after the other; *)
(* IterSpec a client that reads a file through an iterator; ConcSpec two   *)
(* goroutines that call Put and Delete at the same time; PagerSpec a       *)
(* client of the pager of src/unnamed/part_000; OpenSpec a client that     *)
(* calls Open with some degree before it calls the operations;             *)
(* ConcFairSpec goroutines that call Put and Get under a fair scheduler;   *)
(* PagerConcSpec two goroutines that call Write of the pager.              *)
(***************************************************************************)
EXTENDS Integers, Sequences, FiniteSets, TLC

(***************************************************************************)
(* Bounds of the model.                                                    *)
(***************************************************************************)
MaxKey == 5
MaxVal == 2
MaxPages == 5
\* the number of operations of a session on a new file, and of a session on
\* the file an earlier session left
MaxOps == 5
MaxMore == 3
\* the keys of the three-level tree an earlier session left, and the number of
\* operations of a session on it
MaxTallKey == 9
MaxTallOps == 2
\* the keys of the tree with a full internal root an earlier session left, and
\* the number of operations of a session on it
MaxWideKey == 8
MaxWideOps == 1
\* the number of values an earlier session put under one key, and the number of
\* operations of a session on the file it left with pages marked for reuse
MaxFill == 5
MaxReuseOps == 3
\* the number of operations of a session on the file whose root holds an
\* overflowed key
MaxOverflowOps == 2

\* the Puts made to one key of the file an iterator reads, beyond the first
MaxChain == 4

\* the pager: the bytes of a page (PAGE_SIZE of the pager, scaled down), the
\* values of a byte of data, the longest data, the page ids a client names,
\* and the number of calls of a session
PageBytes == 2
MaxByte == 2
MaxData == 3
MaxPageID == 2
MaxPagerOps == 4

\* the goroutines that call the tree at the same time, one call each
NumThreads == 2

\* the degrees a client asks Open for, and the number of operations of the
\* session that follows
MaxT == 3

\* the keys added to a node of the file to make the nodes that are encoded
MaxStretch == 8
MaxOpenOps == 4
\* lengths in bytes of the keys and values the clients put
KeyLen == 1
ValLen == 100

Keys == 1..MaxKey
Vals == 1..MaxVal

(***************************************************************************)
(* Program constants.                                                      *)
(***************************************************************************)
PAGE_SIZE == 1024
\* the minimum degree passed to Open
T == 2
\* deleteKey passes a *Key where a key is expected (b.deleteKey(predKey, y)):
\* the comparators answer false whenever the dynamic types differ
KeyPtr == 0

\* gob output lengths (approximate): the type descriptors sent ahead of every
\* Node, and the cost of one key record, one interface value, one child id
\* and a set Overflowed/OverflowPage pair
GobPreamble == 215
GobKeyCost == 16
GobValCost == 12
GobChildCost == 2
GobOverflowCost == 4

(***************************************************************************)
(* Data.                                                                   *)
(***************************************************************************)
VARIABLES file, last, live, clean, used, run, budget, it, pager, conc, handle

vars == <<file, last, live, clean, used, run, budget, it, pager, conc, handle>>

\* what the client of the tree keeps
client == <<last, live, clean, used, run, budget, handle>>

\* the parts of the program a session of Put, Delete and Remove leaves alone
elsewhere == <<it, pager, conc, handle>>

NewKey(k, v) == [K |-> k, V |-> <<v>>, Overflowed |-> FALSE, OverflowPage |-> 0]

NewNode(page, leaf) ==
  [Page |-> page, Keys |-> <<>>, Children |-> <<>>, Leaf |-> leaf, Reuse |-> FALSE]

\* a page that gob cannot decode (never written, or garbage)
Hole == [Page |-> 0 - 1, Keys |-> <<>>, Children |-> <<>>, Leaf |-> FALSE, Reuse |-> FALSE]

\* 0-based indexing, as in the code
At(s, i) == s[i + 1]

SetAt(s, i, e) == [s EXCEPT ![i + 1] = e]

InsertAt(s, i, e) == SubSeq(s, 1, i) \o <<e>> \o SubSeq(s, i + 1, Len(s))

RemoveAt(s, i) == SubSeq(s, 1, i) \o SubSeq(s, i + 2, Len(s))

\* With(v, F) is F(v): v is computed once and named
With(v, F(_)) == F(v)

RECURSIVE SumSeq(_)
SumSeq(s) == IF s = <<>> THEN 0 ELSE Head(s) + SumSeq(Tail(s))

lessThan(a, b) == IF a = KeyPtr \/ b = KeyPtr THEN FALSE ELSE a < b

greaterThan(a, b) == IF a = KeyPtr \/ b = KeyPtr THEN FALSE ELSE a > b

equal(a, b) == IF a = KeyPtr \/ b = KeyPtr THEN FALSE ELSE a = b

lessThanEq(a, b) == IF a = KeyPtr \/ b = KeyPtr THEN FALSE ELSE a <= b

(***************************************************************************)
(* The codec: the length of gob's encoding of a node.                      *)
(***************************************************************************)
KeySize(key) ==
  GobKeyCost + KeyLen + Len(key.V) * (GobValCost + ValLen)
    + (IF key.Overflowed THEN GobOverflowCost ELSE 0)

EncodedSize(n) ==
  GobPreamble + SumSeq([i \in 1..Len(n.Keys) |-> KeySize(n.Keys[i])])
    + GobChildCost * Len(n.Children)

nodeKeyOverflowed(n) == EncodedSize(n) > PAGE_SIZE \div 2

(***************************************************************************)
(* Pages.                                                                  *)
(***************************************************************************)
\* getPage succeeds: the page lies in the file and decodes
Readable(f, p) == p >= 0 /\ p < Len(f) /\ f[p + 1] # Hole

getPage(f, p) == f[p + 1]

\* WriteAt past the end of the file leaves zero pages in between
WriteAt(f, p, n) ==
  [i \in 1..(IF p + 1 > Len(f) THEN p + 1 ELSE Len(f)) |->
     IF i = p + 1 THEN n ELSE IF i <= Len(f) THEN f[i] ELSE Hole]

\* encodeNode that never refuses a node
encodeNodeAnyLength(n) ==
  [len |-> IF EncodedSize(n) < PAGE_SIZE THEN PAGE_SIZE ELSE EncodedSize(n),
   err |-> "ok"]

\* encodeNode: the number of bytes it gives, the encoding and then zeros up
\* to PAGE_SIZE, or the error "node too large to encode"
encodeNode(n) ==
  IF EncodedSize(n) > PAGE_SIZE THEN [len |-> 0, err |-> "node too large to encode"]
  ELSE [len |-> EncodedSize(n) + (PAGE_SIZE - EncodedSize(n)), err |-> "ok"]

\* encodeNode refuses a node longer than a page
Encodable(n) == encodeNode(n).err = "ok"

\* writePage: [f, err]
writePage(f, n) ==
  IF Encodable(n) THEN [f |-> WriteAt(f, n.Page, n), err |-> "ok"]
  ELSE [f |-> f, err |-> "error"]

\* newBTreeNode: the node is written at the first page past the end
newBTreeNode(f, leaf) ==
  [f |-> Append(f, NewNode(Len(f), leaf)), node |-> NewNode(Len(f), leaf)]

\* getRoot: an empty file gets an empty leaf root at page 0
getRoot(f) ==
  IF Len(f) = 0 THEN [f |-> <<NewNode(0, TRUE)>>, node |-> NewNode(0, TRUE), err |-> "ok"]
  ELSE IF f[1] = Hole THEN [f |-> f, node |-> Hole, err |-> "error"]
  ELSE [f |-> f, node |-> f[1], err |-> "ok"]

\* a descent that visits more nodes than the file has pages is on a cycle
Fuel(f) == Len(f) + 1

\* for i < len(keys) && lessThan(keys[i].K, k) { i++ }
RECURSIVE ScanUp(_, _, _)
ScanUp(keys, k, i) ==
  IF i < Len(keys) /\ lessThan(At(keys, i).K, k) THEN ScanUp(keys, k, i + 1) ELSE i

\* for i >= 0 && lessThan(k, keys[i].K) { i-- }
RECURSIVE ScanDown(_, _, _)
ScanDown(keys, k, i) ==
  IF i >= 0 /\ lessThan(k, At(keys, i).K) THEN ScanDown(keys, k, i - 1) ELSE i

(***************************************************************************)
(* Get.                                                                    *)
(***************************************************************************)
\* the values of the overflow chain that starts at page p: [vals, err]
RECURSIVE chainValues(_, _, _)
chainValues(f, p, fuel) ==
  IF fuel = 0 THEN [vals |-> <<>>, err |-> "crash"]
  ELSE IF ~Readable(f, p) THEN [vals |-> <<>>, err |-> "error"]
  ELSE With(getPage(f, p), LAMBDA o :
       IF Len(o.Keys) = 0 THEN [vals |-> <<>>, err |-> "crash"]
       ELSE IF ~o.Keys[1].Overflowed THEN [vals |-> o.Keys[1].V, err |-> "ok"]
       ELSE With(chainValues(f, o.Keys[1].OverflowPage, fuel - 1), LAMBDA r :
            [vals |-> o.Keys[1].V \o r.vals, err |-> r.err]))

RECURSIVE searchKey(_, _, _, _)
searchKey(f, k, x, fuel) ==
  With(ScanUp(x.Keys, k, 0), LAMBDA i :
  IF fuel = 0 THEN [vals |-> <<>>, err |-> "crash"]
  ELSE IF i < Len(x.Keys) /\ equal(k, At(x.Keys, i).K) THEN
    IF At(x.Keys, i).Overflowed THEN
      With(chainValues(f, At(x.Keys, i).OverflowPage, Fuel(f)), LAMBDA r :
      [vals |-> IF r.err = "ok" THEN At(x.Keys, i).V \o r.vals ELSE <<>>, err |-> r.err])
    ELSE [vals |-> At(x.Keys, i).V, err |-> "ok"]
  ELSE IF x.Leaf THEN [vals |-> <<>>, err |-> "ok"]
  ELSE IF i >= Len(x.Children) THEN [vals |-> <<>>, err |-> "crash"]
  ELSE IF ~Readable(f, At(x.Children, i)) THEN [vals |-> <<>>, err |-> "error"]
  ELSE searchKey(f, k, getPage(f, At(x.Children, i)), fuel - 1))

\* Get(k): [vals, err]
Get(f, k) ==
  With(getRoot(f), LAMBDA g :
  IF g.err # "ok" THEN [vals |-> <<>>, err |-> g.err]
  ELSE searchKey(g.f, k, g.node, Fuel(g.f)))

(***************************************************************************)
(* Range.                                                                  *)
(***************************************************************************)
\* rangeKeys: [keys, err]; rangeLoop is its second loop, from index i on
RECURSIVE rangeKeys(_, _, _, _, _), rangeLoop(_, _, _, _, _, _)
rangeLoop(f, start, end, x, i, fuel) ==
  IF i < Len(x.Keys) /\ lessThanEq(At(x.Keys, i).K, end) THEN
    With(IF x.Leaf THEN [keys |-> <<>>, err |-> "ok"]
         ELSE IF i >= Len(x.Children) THEN [keys |-> <<>>, err |-> "crash"]
         ELSE IF ~Readable(f, At(x.Children, i)) THEN [keys |-> <<>>, err |-> "error"]
         ELSE rangeKeys(f, start, end, getPage(f, At(x.Children, i)), fuel - 1), LAMBDA sub :
    IF sub.err # "ok" THEN sub
    ELSE With(rangeLoop(f, start, end, x, i + 1, fuel), LAMBDA rest :
         IF rest.err # "ok" THEN rest
         ELSE [keys |-> sub.keys \o <<At(x.Keys, i).K>> \o rest.keys, err |-> "ok"]))
  ELSE IF ~x.Leaf /\ i < Len(x.Children) THEN
    IF ~Readable(f, At(x.Children, i)) THEN [keys |-> <<>>, err |-> "error"]
    ELSE rangeKeys(f, start, end, getPage(f, At(x.Children, i)), fuel - 1)
  ELSE [keys |-> <<>>, err |-> "ok"]

rangeKeys(f, start, end, x, fuel) ==
  IF fuel = 0 THEN [keys |-> <<>>, err |-> "crash"]
  ELSE rangeLoop(f, start, end, x, ScanUp(x.Keys, start, 0), fuel)

\* Range(start, end): [keys, err]
Range(f, start, end) ==
  With(getRoot(f), LAMBDA g :
  IF g.err # "ok" THEN [keys |-> <<>>, err |-> g.err]
  ELSE rangeKeys(g.f, start, end, g.node, Fuel(g.f)))

\* splitChild that gives the new sibling the median key as well
splitChildWithMedian(f, x, i, y) ==
  With(newBTreeNode(f, y.Leaf), LAMBDA nz :
  With([nz.node EXCEPT
          !.Keys = SubSeq(y.Keys, T, Len(y.Keys)),
          !.Children = IF y.Leaf THEN <<>>
                       ELSE SubSeq(y.Children, T + 1, Len(y.Children))], LAMBDA z :
  With([y EXCEPT
          !.Keys = SubSeq(y.Keys, 1, T - 1),
          !.Children = IF y.Leaf THEN y.Children ELSE SubSeq(y.Children, 1, T)], LAMBDA y1 :
  With([x EXCEPT
          !.Keys = InsertAt(x.Keys, i, At(y.Keys, T - 1)),
          !.Children = InsertAt(x.Children, i + 1, z.Page)], LAMBDA x1 :
  With(writePage(nz.f, y1), LAMBDA w1 :
  With(writePage(w1.f, z), LAMBDA w2 :
  With(writePage(w2.f, x1), LAMBDA w3 :
  IF w1.err # "ok" THEN [f |-> w1.f, x |-> x1, y |-> y1, err |-> w1.err]
  ELSE IF w2.err # "ok" THEN [f |-> w2.f, x |-> x1, y |-> y1, err |-> w2.err]
  ELSE [f |-> w3.f, x |-> x1, y |-> y1, err |-> w3.err])))))))

(***************************************************************************)
(* Put.                                                                    *)
(***************************************************************************)
\* splitChild(x, i, y): [f, x, y, err]; x and y are changed in place
splitChild(f, x, i, y) ==
  With(newBTreeNode(f, y.Leaf), LAMBDA nz :
  With([nz.node EXCEPT
          !.Keys = SubSeq(y.Keys, T + 1, Len(y.Keys)),
          !.Children = IF y.Leaf THEN <<>>
                       ELSE SubSeq(y.Children, T + 1, Len(y.Children))], LAMBDA z :
  With([y EXCEPT
          !.Keys = SubSeq(y.Keys, 1, T - 1),
          !.Children = IF y.Leaf THEN y.Children ELSE SubSeq(y.Children, 1, T)], LAMBDA y1 :
  With([x EXCEPT
          !.Keys = InsertAt(x.Keys, i, At(y.Keys, T - 1)),
          !.Children = InsertAt(x.Children, i + 1, z.Page)], LAMBDA x1 :
  With(writePage(nz.f, y1), LAMBDA w1 :
  With(writePage(w1.f, z), LAMBDA w2 :
  With(writePage(w2.f, x1), LAMBDA w3 :
  IF w1.err # "ok" THEN [f |-> w1.f, x |-> x1, y |-> y1, err |-> w1.err]
  ELSE IF w2.err # "ok" THEN [f |-> w2.f, x |-> x1, y |-> y1, err |-> w2.err]
  ELSE [f |-> w3.f, x |-> x1, y |-> y1, err |-> w3.err])))))))

\* splitRoot: [f, err]
splitRoot(f) ==
  With(getRoot(f), LAMBDA g :
  With(newBTreeNode(g.f, g.node.Leaf), LAMBDA nn :
  With([nn.node EXCEPT !.Keys = g.node.Keys, !.Children = g.node.Children], LAMBDA newOldRoot :
  With([Page |-> 0, Keys |-> <<>>, Children |-> <<newOldRoot.Page>>,
        Leaf |-> FALSE, Reuse |-> FALSE], LAMBDA newRoot :
  With(splitChild(nn.f, newRoot, 0, newOldRoot), LAMBDA s :
  With(writePage(s.f, s.x), LAMBDA w1 :
  With(writePage(w1.f, s.y), LAMBDA w2 :
  IF g.err # "ok" THEN [f |-> g.f, err |-> g.err]
  ELSE IF s.err # "ok" THEN [f |-> s.f, err |-> s.err]
  ELSE IF w1.err # "ok" THEN [f |-> w1.f, err |-> w1.err]
  ELSE [f |-> w2.f, err |-> w2.err])))))))

\* getAvailableOverflowNode, scanning from page i: [f, node, found, err]
RECURSIVE getAvailableOverflowNode(_, _)
getAvailableOverflowNode(f, i) ==
  IF i >= Len(f) THEN [f |-> f, node |-> Hole, found |-> FALSE, err |-> "ok"]
  ELSE IF ~Readable(f, i) THEN [f |-> f, node |-> Hole, found |-> FALSE, err |-> "error"]
  ELSE IF getPage(f, i).Reuse THEN
    With(writePage(f, getPage(f, i)), LAMBDA w :
    [f |-> w.f, node |-> [getPage(f, i) EXCEPT !.Reuse = FALSE], found |-> TRUE, err |-> w.err])
  ELSE getAvailableOverflowNode(f, i + 1)

\* the last page of the overflow chain that starts at page p: [node, err]
RECURSIVE chainTail(_, _, _)
chainTail(f, p, fuel) ==
  IF fuel = 0 THEN [node |-> Hole, err |-> "crash"]
  ELSE IF ~Readable(f, p) THEN [node |-> Hole, err |-> "error"]
  ELSE IF Len(getPage(f, p).Keys) = 0 THEN [node |-> Hole, err |-> "crash"]
  ELSE IF getPage(f, p).Keys[1].Overflowed
    THEN chainTail(f, getPage(f, p).Keys[1].OverflowPage, fuel - 1)
  ELSE [node |-> getPage(f, p), err |-> "ok"]

\* handleKeyOverflow(x, i, key, value): [f, err]
handleKeyOverflow(f, x, i, k, v) ==
  IF At(x.Keys, i).Overflowed THEN
    With(chainTail(f, At(x.Keys, i).OverflowPage, Fuel(f)), LAMBDA t :
    With(t.node, LAMBDA o :
    With([o EXCEPT !.Keys[1].V = Append(@, v)], LAMBDA o1 :
    With(newBTreeNode(f, TRUE), LAMBDA nn :
    With(IF Len(o.Keys[1].V) = 0 THEN [o EXCEPT !.Keys[1].V = <<v>>] ELSE o, LAMBDA o2 :
    With(IF Len(o.Keys[1].V) = 0 THEN nn.node
         ELSE [nn.node EXCEPT !.Keys = <<NewKey(k, v)>>], LAMBDA newOverflowPage :
    With([o2 EXCEPT !.Keys[1].Overflowed = TRUE,
                    !.Keys[1].OverflowPage = newOverflowPage.Page], LAMBDA o3 :
    With(writePage(nn.f, newOverflowPage), LAMBDA w1 :
    IF t.err # "ok" THEN [f |-> f, err |-> t.err]
    ELSE IF nodeKeyOverflowed(o1) THEN
      IF w1.err # "ok" THEN w1 ELSE writePage(w1.f, o3)
    ELSE writePage(f, o1)))))))))
  ELSE
    With(getAvailableOverflowNode(f, 0), LAMBDA a :
    With(newBTreeNode(a.f, TRUE), LAMBDA nn :
    With(IF a.found THEN a.node ELSE nn.node, LAMBDA existingOverflow :
    With(IF a.found THEN a.f ELSE nn.f, LAMBDA f1 :
    With(IF Len(existingOverflow.Keys) = 0
         THEN [existingOverflow EXCEPT !.Keys = <<NewKey(k, v)>>]
         ELSE [existingOverflow EXCEPT !.Keys[1].V = Append(@, v)], LAMBDA e1 :
    With([x EXCEPT !.Keys[i + 1].Overflowed = TRUE,
                   !.Keys[i + 1].OverflowPage = existingOverflow.Page], LAMBDA x1 :
    With(writePage(f1, e1), LAMBDA w1 :
    IF a.err # "ok" THEN [f |-> a.f, err |-> a.err]
    ELSE IF w1.err # "ok" THEN w1
    ELSE writePage(w1.f, x1))))))))

\* insertNonFull(x, key, value): [f, err]
RECURSIVE insertNonFull(_, _, _, _, _)
insertNonFull(f, x, k, v, fuel) ==
  IF fuel = 0 THEN [f |-> f, err |-> "crash"]
  ELSE IF x.Leaf THEN
    With(ScanDown(x.Keys, k, Len(x.Keys) - 1), LAMBDA i :
    IF i >= 0 /\ equal(k, At(x.Keys, i).K) THEN
      IF nodeKeyOverflowed([x EXCEPT !.Keys[i + 1].V = Append(@, v)])
      THEN handleKeyOverflow(f, x, i, k, v)
      ELSE writePage(f, [x EXCEPT !.Keys[i + 1].V = Append(@, v)])
    ELSE writePage(f, [x EXCEPT !.Keys = InsertAt(x.Keys, i + 1, NewKey(k, v))]))
  ELSE
    With(ScanDown(x.Keys, k, Len(x.Keys) - 1) + 1, LAMBDA i :
    IF i >= Len(x.Children) THEN [f |-> f, err |-> "crash"]
    ELSE IF ~Readable(f, At(x.Children, i)) THEN [f |-> f, err |-> "error"]
    ELSE
      With(getPage(f, At(x.Children, i)), LAMBDA child :
      With(Len(child.Keys) = 2 * T - 1, LAMBDA full :
      With(splitChild(f, x, i, child), LAMBDA s :
      With(IF full THEN s.x ELSE x, LAMBDA x1 :
      With(IF full THEN s.f ELSE f, LAMBDA f1 :
      With(IF full /\ greaterThan(k, At(x1.Keys, i).K) THEN i + 1 ELSE i, LAMBDA i1 :
      IF full /\ s.err # "ok" THEN [f |-> s.f, err |-> s.err]
      ELSE IF ~Readable(f1, At(x1.Children, i1)) THEN [f |-> f1, err |-> "error"]
      ELSE insertNonFull(f1, getPage(f1, At(x1.Children, i1)), k, v, fuel - 1))))))))

\* Put(key, value): [f, err]
\* Put, from the lock of the root on: root is the node getRoot gave before
\* the lock was taken
PutLocked(f, root, k, v) ==
  With(Len(root.Keys) = 2 * T - 1, LAMBDA full :
  With(splitRoot(f), LAMBDA s :
  With(IF full THEN s.f ELSE f, LAMBDA f1 :
  IF full /\ s.err # "ok" THEN [f |-> s.f, err |-> s.err]
  ELSE IF full /\ ~Readable(f1, 0) THEN [f |-> f1, err |-> "error"]
  ELSE insertNonFull(f1, IF full THEN getPage(f1, 0) ELSE root, k, v,
                     Fuel(f1) + MaxPages))))

PutOp(f, k, v) ==
  With(getRoot(f), LAMBDA g :
  IF g.err # "ok" THEN [f |-> g.f, err |-> g.err]
  ELSE PutLocked(g.f, g.node, k, v))

(***************************************************************************)
(* Delete.                                                                 *)
(***************************************************************************)
\* getAllOverflowPages(key): [pages, err]
RECURSIVE getAllOverflowPages(_, _, _)
getAllOverflowPages(f, key, fuel) ==
  IF ~key.Overflowed THEN [pages |-> <<>>, err |-> "ok"]
  ELSE IF fuel = 0 THEN [pages |-> <<>>, err |-> "crash"]
  ELSE IF ~Readable(f, key.OverflowPage) THEN [pages |-> <<>>, err |-> "error"]
  ELSE IF Len(getPage(f, key.OverflowPage).Keys) = 0 THEN [pages |-> <<>>, err |-> "crash"]
  ELSE With(getAllOverflowPages(f, getPage(f, key.OverflowPage).Keys[1], fuel - 1), LAMBDA r :
       [pages |-> <<key.OverflowPage>> \o r.pages, err |-> r.err])

\* the loop of deleteKey that marks the overflow pages reusable: [f, err]
RECURSIVE markReuse(_, _)
markReuse(f, pages) ==
  IF pages = <<>> THEN [f |-> f, err |-> "ok"]
  ELSE IF ~Readable(f, Head(pages)) THEN [f |-> f, err |-> "error"]
  ELSE With(writePage(f, [getPage(f, Head(pages)) EXCEPT !.Reuse = TRUE]), LAMBDA w :
       IF w.err # "ok" THEN w ELSE markReuse(w.f, Tail(pages)))

\* getPredecessor(x): [key, err]
RECURSIVE getPredecessor(_, _, _)
getPredecessor(f, x, fuel) ==
  IF fuel = 0 THEN [key |-> NewKey(0, 0), err |-> "crash"]
  ELSE IF x.Leaf THEN
    IF Len(x.Keys) = 0 THEN [key |-> NewKey(0, 0), err |-> "crash"]
    ELSE [key |-> x.Keys[Len(x.Keys)], err |-> "ok"]
  ELSE IF Len(x.Children) = 0 THEN [key |-> NewKey(0, 0), err |-> "crash"]
  ELSE IF ~Readable(f, x.Children[Len(x.Children)]) THEN [key |-> NewKey(0, 0), err |-> "error"]
  ELSE getPredecessor(f, getPage(f, x.Children[Len(x.Children)]), fuel - 1)

\* getSuccessor(x): [key, err]
RECURSIVE getSuccessor(_, _, _)
getSuccessor(f, x, fuel) ==
  IF fuel = 0 THEN [key |-> NewKey(0, 0), err |-> "crash"]
  ELSE IF x.Leaf THEN
    IF Len(x.Keys) = 0 THEN [key |-> NewKey(0, 0), err |-> "crash"]
    ELSE [key |-> x.Keys[1], err |-> "ok"]
  ELSE IF Len(x.Children) = 0 THEN [key |-> NewKey(0, 0), err |-> "crash"]
  ELSE IF ~Readable(f, x.Children[1]) THEN [key |-> NewKey(0, 0), err |-> "error"]
  ELSE getSuccessor(f, getPage(f, x.Children[1]), fuel - 1)

\* The first page after deletePage(offset, PAGE_SIZE): offset is a page NUMBER
\* used as a byte offset, so the page keeps its first `offset` bytes and gets
\* the rest from page 1.  Every page starts with the same gob type
\* descriptors, so for an offset within them the result is page 1.
SplicedFirstPage(f, offset) ==
  IF offset = 0 THEN f[2]
  ELSE IF offset > GobPreamble \/ f[1] = Hole \/ f[2] = Hole THEN Hole
  ELSE f[2]

\* deletePage(offset, PAGE_SIZE): bytes [offset+PAGE_SIZE, newSize) move down by
\* one page and the file loses its last page: pages 0..n-3 get the contents
\* of pages 1..n-2, page n-2 stays, page n-1 is cut off.  [f, err]
deletePage(f, offset) ==
  IF Len(f) = 0 THEN [f |-> f, err |-> "error"]
  ELSE [f |-> [j \in 1..(Len(f) - 1) |->
                 IF j > Len(f) - 2 THEN f[j]
                 ELSE IF j = 1 THEN SplicedFirstPage(f, offset)
                 ELSE f[j + 1]],
        err |-> "ok"]

\* updatePageNumbers(x, deletedPage): [f, err]; updateChildren is its loop
\* over x.Children, from index i on
RECURSIVE updatePageNumbers(_, _, _, _), updateChildren(_, _, _, _, _)
updateChildren(f, children, i, deletedPage, fuel) ==
  IF i >= Len(children) THEN [f |-> f, err |-> "ok"]
  ELSE IF ~Readable(f, At(children, i)) THEN [f |-> f, err |-> "error"]
  ELSE With(updatePageNumbers(f, getPage(f, At(children, i)), deletedPage, fuel - 1), LAMBDA r :
       IF r.err # "ok" THEN r ELSE updateChildren(r.f, children, i + 1, deletedPage, fuel))

updatePageNumbers(f, x, deletedPage, fuel) ==
  IF fuel = 0 THEN [f |-> f, err |-> "crash"]
  ELSE With(IF x.Page > deletedPage
            THEN writePage(f, [x EXCEPT !.Page = @ - 1])
            ELSE [f |-> f, err |-> "ok"], LAMBDA w :
       IF w.err # "ok" THEN w
       ELSE updateChildren(w.f, x.Children, 0, deletedPage, fuel))

\* deletePageAndUpdate(offset, PAGE_SIZE): [f, err]
deletePageAndUpdate(f, offset) ==
  With(deletePage(f, offset), LAMBDA d :
  With(getRoot(d.f), LAMBDA g :
  IF d.err # "ok" THEN d
  ELSE IF g.err # "ok" THEN [f |-> g.f, err |-> g.err]
  ELSE updatePageNumbers(g.f, g.node, offset, Fuel(g.f))))

\* deleteKey(k, x): [f, err]
RECURSIVE deleteKey(_, _, _, _)
deleteKey(f, x, k, fuel) ==
  With(ScanUp(x.Keys, k, 0), LAMBDA i :
  IF fuel = 0 THEN [f |-> f, err |-> "crash"]
  ELSE IF i < Len(x.Keys) /\ equal(k, At(x.Keys, i).K) THEN
    With(getAllOverflowPages(f, At(x.Keys, i), Fuel(f)), LAMBDA ov :
    With(markReuse(f, ov.pages), LAMBDA m :
    IF ov.err # "ok" THEN [f |-> f, err |-> ov.err]
    ELSE IF m.err # "ok" THEN m
    ELSE IF x.Leaf THEN writePage(m.f, [x EXCEPT !.Keys = RemoveAt(x.Keys, i)])
    ELSE IF i >= Len(x.Children) THEN [f |-> m.f, err |-> "crash"]
    ELSE IF ~Readable(m.f, At(x.Children, i)) THEN [f |-> m.f, err |-> "error"]
    ELSE IF i + 1 >= Len(x.Children) THEN [f |-> m.f, err |-> "crash"]
    ELSE IF ~Readable(m.f, At(x.Children, i + 1)) THEN [f |-> m.f, err |-> "error"]
    ELSE
      With(getPage(m.f, At(x.Children, i)), LAMBDA y :
      With(getPage(m.f, At(x.Children, i + 1)), LAMBDA z :
      IF Len(y.Keys) >= T THEN
        With(getPredecessor(m.f, y, Fuel(m.f)), LAMBDA pk :
        With(deleteKey(m.f, y, KeyPtr, fuel - 1), LAMBDA d :
        IF pk.err # "ok" THEN [f |-> m.f, err |-> pk.err]
        ELSE IF d.err # "ok" THEN d
        ELSE writePage(d.f, [x EXCEPT !.Keys = SetAt(x.Keys, i, pk.key)])))
      ELSE IF Len(z.Keys) >= T THEN
        With(getSuccessor(m.f, z, Fuel(m.f)), LAMBDA sk :
        With(deleteKey(m.f, z, KeyPtr, fuel - 1), LAMBDA d :
        IF sk.err # "ok" THEN [f |-> m.f, err |-> sk.err]
        ELSE IF d.err # "ok" THEN d
        ELSE writePage(d.f, [x EXCEPT !.Keys = SetAt(x.Keys, i, sk.key)])))
      ELSE
        With([y EXCEPT !.Keys = y.Keys \o <<At(x.Keys, i)>> \o z.Keys,
                       !.Children = y.Children \o z.Children], LAMBDA y1 :
        With([x EXCEPT !.Keys = RemoveAt(x.Keys, i),
                       !.Children = RemoveAt(x.Children, i + 1)], LAMBDA x1 :
        With(deletePageAndUpdate(m.f, z.Page), LAMBDA dp :
        With(deleteKey(dp.f, y1, k, fuel - 1), LAMBDA d :
        IF dp.err # "ok" THEN dp
        ELSE IF d.err # "ok" THEN d
        ELSE writePage(d.f, x1)))))))))
  ELSE IF ~x.Leaf THEN
    IF i >= Len(x.Children) THEN [f |-> f, err |-> "crash"]
    ELSE IF ~Readable(f, At(x.Children, i)) THEN [f |-> f, err |-> "error"]
    ELSE deleteKey(f, getPage(f, At(x.Children, i)), k, fuel - 1)
  ELSE [f |-> f, err |-> "ok"])

\* Delete(k): [f, err]
DeleteOp(f, k) ==
  With(getRoot(f), LAMBDA g :
  IF g.err # "ok" THEN [f |-> g.f, err |-> g.err]
  ELSE deleteKey(g.f, g.node, k, Fuel(g.f) + MaxPages))

(***************************************************************************)
(* Remove.                                                                 *)
(***************************************************************************)
\* the index (from 1) of the first element of s equal to v, or 0
RECURSIVE IndexOf(_, _, _)
IndexOf(s, v, j) ==
  IF j > Len(s) THEN 0 ELSE IF s[j] = v THEN j ELSE IndexOf(s, v, j + 1)

\* the walk of deleteValueFromNode along an overflow chain, from page p:
\* [f, err], err = "none" when the chain ends without the value
RECURSIVE removeFromChain(_, _, _, _)
removeFromChain(f, p, v, fuel) ==
  IF fuel = 0 THEN [f |-> f, err |-> "crash"]
  ELSE IF ~Readable(f, p) THEN [f |-> f, err |-> "error"]
  ELSE With(getPage(f, p), LAMBDA o :
       IF Len(o.Keys) = 0 THEN [f |-> f, err |-> "crash"]
       ELSE IF IndexOf(o.Keys[1].V, v, 1) # 0 THEN
         writePage(f, [o EXCEPT !.Keys[1].V = RemoveAt(@, IndexOf(o.Keys[1].V, v, 1) - 1)])
       ELSE IF o.Keys[1].Overflowed THEN removeFromChain(f, o.Keys[1].OverflowPage, v, fuel - 1)
       ELSE [f |-> f, err |-> "none"])

\* deleteValueFromNode(x, key, value): [f, err]; removeKeys is its loop over
\* x.Keys from index i on, removeChildren its loop over x.Children
RECURSIVE deleteValueFromNode(_, _, _, _, _), removeKeys(_, _, _, _, _, _),
          removeChildren(_, _, _, _, _, _)
removeChildren(f, x, i, k, v, fuel) ==
  IF x.Leaf \/ i >= Len(x.Children) THEN [f |-> f, err |-> "notfound"]
  ELSE IF ~Readable(f, At(x.Children, i)) THEN [f |-> f, err |-> "error"]
  ELSE With(deleteValueFromNode(f, getPage(f, At(x.Children, i)), k, v, fuel - 1), LAMBDA r :
       IF r.err # "ok" THEN r ELSE removeChildren(r.f, x, i + 1, k, v, fuel))

removeKeys(f, x, i, k, v, fuel) ==
  IF i >= Len(x.Keys) THEN removeChildren(f, x, 0, k, v, fuel)
  ELSE IF ~equal(At(x.Keys, i).K, k) THEN removeKeys(f, x, i + 1, k, v, fuel)
  ELSE IF At(x.Keys, i).Overflowed THEN
    With(removeFromChain(f, At(x.Keys, i).OverflowPage, v, Fuel(f)), LAMBDA r :
    IF r.err = "none" THEN removeKeys(f, x, i + 1, k, v, fuel) ELSE r)
  \* the value is cut out of the decoded node only: the node is not written
  ELSE IF IndexOf(At(x.Keys, i).V, v, 1) # 0 THEN [f |-> f, err |-> "ok"]
  ELSE removeKeys(f, x, i + 1, k, v, fuel)

deleteValueFromNode(f, x, k, v, fuel) ==
  IF fuel = 0 THEN [f |-> f, err |-> "crash"]
  ELSE removeKeys(f, x, 0, k, v, fuel)

\* Remove(key, value): [f, err]
RemoveOp(f, k, v) ==
  With(getRoot(f), LAMBDA g :
  IF g.err # "ok" THEN [f |-> g.f, err |-> g.err]
  ELSE deleteValueFromNode(g.f, g.node, k, v, Fuel(g.f)))

(***************************************************************************)
(* The iterator: node, keyIndex, valIndex.  A nil node is Hole.            *)
(***************************************************************************)
\* findNodeForKey: [node, keyIndex, err]
RECURSIVE findNodeForKey(_, _, _, _)
findNodeForKey(f, x, key, fuel) ==
  With(ScanUp(x.Keys, key, 0), LAMBDA i :
  IF fuel = 0 THEN [node |-> Hole, keyIndex |-> 0, err |-> "crash"]
  ELSE IF i < Len(x.Keys) /\ equal(key, At(x.Keys, i).K)
    THEN [node |-> x, keyIndex |-> i, err |-> "ok"]
  ELSE IF ~x.Leaf THEN
    IF i >= Len(x.Children) THEN [node |-> Hole, keyIndex |-> 0, err |-> "crash"]
    ELSE IF ~Readable(f, At(x.Children, i))
      THEN [node |-> Hole, keyIndex |-> 0, err |-> "error"]
    ELSE findNodeForKey(f, getPage(f, At(x.Children, i)), key, fuel - 1)
  ELSE [node |-> Hole, keyIndex |-> 0, err |-> "notfound"])

\* NewIteratorFromKey: [f, node, keyIndex, valIndex, err]
NewIteratorFromKey(f, key) ==
  With(getRoot(f), LAMBDA g :
  With(findNodeForKey(g.f, g.node, key, Fuel(g.f)), LAMBDA r :
  IF g.err # "ok"
    THEN [f |-> g.f, node |-> Hole, keyIndex |-> 0, valIndex |-> 0, err |-> g.err]
  ELSE [f |-> g.f, node |-> r.node, keyIndex |-> r.keyIndex, valIndex |-> 0,
        err |-> r.err]))

\* Next, when the values of the key at keyIndex have all been given: the
\* overflow page of the key, or else the next key of the node
pastValues(f, i) ==
  With(At(i.node.Keys, i.keyIndex), LAMBDA key :
  IF i.valIndex < Len(key.V)
    THEN [node |-> i.node, keyIndex |-> i.keyIndex, valIndex |-> i.valIndex,
          err |-> "ok"]
  ELSE IF key.Overflowed THEN
    IF Readable(f, key.OverflowPage)
      THEN [node |-> getPage(f, key.OverflowPage), keyIndex |-> 0, valIndex |-> 0,
            err |-> "ok"]
    ELSE [node |-> i.node, keyIndex |-> i.keyIndex, valIndex |-> i.valIndex,
          err |-> "error"]
  ELSE [node |-> i.node, keyIndex |-> i.keyIndex + 1, valIndex |-> 0, err |-> "ok"])

\* Next, when the keys of the node have all been visited: the end in a leaf,
\* or else the child at keyIndex
pastKeys(f, a) ==
  IF a.err # "ok" \/ a.keyIndex < Len(a.node.Keys) THEN a
  ELSE IF a.node.Leaf
    THEN [node |-> Hole, keyIndex |-> a.keyIndex, valIndex |-> a.valIndex,
          err |-> "end"]
  ELSE IF a.keyIndex >= Len(a.node.Children)
    THEN [node |-> a.node, keyIndex |-> a.keyIndex, valIndex |-> a.valIndex,
          err |-> "crash"]
  ELSE IF ~Readable(f, At(a.node.Children, a.keyIndex))
    THEN [node |-> Hole, keyIndex |-> a.keyIndex, valIndex |-> a.valIndex,
          err |-> "error"]
  ELSE [node |-> getPage(f, At(a.node.Children, a.keyIndex)), keyIndex |-> 0,
        valIndex |-> a.valIndex, err |-> "ok"]

\* Iterator.Next: [node, keyIndex, valIndex, value, err]; err is "end" for
\* "iterator has no more items"
IteratorNext(f, i) ==
  IF i.node = Hole
    THEN [node |-> Hole, keyIndex |-> i.keyIndex, valIndex |-> i.valIndex,
          value |-> 0, err |-> "end"]
  ELSE IF i.keyIndex >= Len(i.node.Keys)
    THEN [node |-> i.node, keyIndex |-> i.keyIndex, valIndex |-> i.valIndex,
          value |-> 0, err |-> "crash"]
  ELSE
    With(pastKeys(f, pastValues(f, i)), LAMBDA b :
    IF b.err # "ok"
      THEN [node |-> b.node, keyIndex |-> b.keyIndex, valIndex |-> b.valIndex,
            value |-> 0, err |-> b.err]
    ELSE IF \/ b.keyIndex >= Len(b.node.Keys)
            \/ b.valIndex >= Len(At(b.node.Keys, b.keyIndex).V)
      THEN [node |-> b.node, keyIndex |-> b.keyIndex, valIndex |-> b.valIndex,
            value |-> 0, err |-> "crash"]
    ELSE [node |-> b.node, keyIndex |-> b.keyIndex, valIndex |-> b.valIndex + 1,
          value |-> At(At(b.node.Keys, b.keyIndex).V, b.valIndex), err |-> "ok"])

(***************************************************************************)
(* The pager of src/unnamed/part_000.  The data file is a sequence of      *)
(* slots of HEADER_SIZE + PAGE_SIZE bytes; slot i is the header (ok: it    *)
(* parses as a number; next: the number) and the PAGE_SIZE bytes of data.  *)
(* deletedPages is the list in memory, del the text of the .del file.      *)
(***************************************************************************)
\* the signs of the text of the .del file, next to the numbers
LeftBracket == 0 - 1
RightBracket == 0 - 2
Comma == 0 - 3

\* a slot of zero bytes, as WriteAt leaves before the offset it writes at
ZeroSlot == [ok |-> FALSE, next |-> 0, data |-> [i \in 1..PageBytes |-> 0]]

\* strings.Join(strings.Fields(fmt.Sprint(pages)), ",")
RECURSIVE joinPages(_)
joinPages(pages) ==
  IF pages = <<>> THEN <<>>
  ELSE IF Len(pages) = 1 THEN pages
  ELSE <<Head(pages), Comma>> \o joinPages(Tail(pages))

\* writeDelPages: the text written to the .del file
writeDelPages(pages) == <<LeftBracket>> \o joinPages(pages) \o <<RightBracket>>

RECURSIVE TrimLeft(_, _)
TrimLeft(text, c) ==
  IF text # <<>> /\ Head(text) = c THEN TrimLeft(Tail(text), c) ELSE text

RECURSIVE TrimRight(_, _)
TrimRight(text, c) ==
  IF text # <<>> /\ text[Len(text)] = c
    THEN TrimRight(SubSeq(text, 1, Len(text) - 1), c) ELSE text

\* strings.Split(text, ",") and ParseInt of each piece: a piece parses when
\* it is one number, other pieces are skipped
RECURSIVE parsePages(_, _)
parsePages(text, piece) ==
  With(IF Len(piece) = 1 /\ piece[1] >= 0 THEN piece ELSE <<>>, LAMBDA page :
  IF text = <<>> THEN page
  ELSE IF Head(text) = Comma THEN page \o parsePages(Tail(text), <<>>)
  ELSE parsePages(Tail(text), Append(piece, Head(text))))

\* readDelPages without the trim of the brackets
readDelPagesUntrimmed(text) ==
  IF text = <<>> THEN <<>> ELSE parsePages(text, <<>>)

\* readDelPages: the list read from the text of the .del file
readDelPages(text) ==
  IF text = <<>> THEN <<>>
  ELSE parsePages(TrimRight(TrimLeft(text, LeftBracket), RightBracket), <<>>)

\* chunk = append(chunk, make([]byte, PAGE_SIZE-len(chunk))...)
Pad(data) == data \o [i \in 1..(PageBytes - Len(data)) |-> 0]

RECURSIVE splitDataIntoChunks(_)
splitDataIntoChunks(data) ==
  IF data = <<>> THEN <<>>
  ELSE IF Len(data) <= PageBytes THEN <<data>>
  ELSE <<SubSeq(data, 1, PageBytes)>>
         \o splitDataIntoChunks(SubSeq(data, PageBytes + 1, Len(data)))

\* file.WriteAt of one slot at slot id
SlotWriteAt(slots, id, slot) ==
  [i \in 1..(IF id + 1 > Len(slots) THEN id + 1 ELSE Len(slots)) |->
     IF i = id + 1 THEN slot ELSE IF i <= Len(slots) THEN slots[i] ELSE ZeroSlot]

\* DeletePage: the id is appended to the list and the list is written
DeletePageOp(p, id) ==
  [p EXCEPT !.deletedPages = Append(p.deletedPages, id),
            !.del = writeDelPages(Append(p.deletedPages, id))]

\* the loop of WriteTo over the list as it was when the loop began (arr, of
\* which the list is now the first n): arr[i] = pageID cuts arr[i] out of the
\* list, and panics when i + 1 is past the end of the list
RECURSIVE removeDeleted(_, _, _, _)
removeDeleted(arr, n, pageID, i) ==
  IF i >= Len(arr) THEN [pages |-> SubSeq(arr, 1, n), err |-> "ok"]
  ELSE IF At(arr, i) # pageID THEN removeDeleted(arr, n, pageID, i + 1)
  ELSE IF i + 1 > n THEN [pages |-> SubSeq(arr, 1, n), err |-> "crash"]
  ELSE removeDeleted([j \in 1..Len(arr) |->
                        IF j >= i + 1 /\ j <= n - 1 THEN arr[j + 1] ELSE arr[j]],
                     n - 1, pageID, i + 1)

\* the chunks of data longer than a page go to pageID, pageID + 1, ..., each
\* under a header that names the slot after it
RECURSIVE writeChunks(_, _, _)
writeChunks(slots, pageID, chunks) ==
  IF chunks = <<>> THEN slots
  ELSE writeChunks(SlotWriteAt(slots, pageID,
                     [ok |-> TRUE, next |-> pageID + 1, data |-> Pad(Head(chunks))]),
                   pageID + 1, Tail(chunks))

\* WriteTo: [p, err]
WriteToOp(p, pageID, data) ==
  With(DeletePageOp(p, pageID), LAMBDA d :
  With(removeDeleted(d.deletedPages, Len(d.deletedPages), pageID, 0), LAMBDA r :
  IF r.err # "ok" THEN [p |-> [d EXCEPT !.deletedPages = r.pages], err |-> r.err]
  ELSE IF Len(data) > PageBytes
    THEN [p |-> [d EXCEPT !.deletedPages = r.pages,
                          !.slots = writeChunks(d.slots, pageID,
                                                splitDataIntoChunks(data))],
          err |-> "ok"]
  ELSE [p |-> [d EXCEPT !.deletedPages = r.pages,
                        !.slots = SlotWriteAt(d.slots, pageID,
                                    [ok |-> TRUE, next |-> 0 - 1, data |-> Pad(data)])],
        err |-> "ok"]))

\* Write: [p, id, err]
WriteOp(p, data) ==
  With(IF Len(p.deletedPages) > 0 THEN p.deletedPages[Len(p.deletedPages)]
       ELSE Len(p.slots), LAMBDA pageID :
  With(WriteToOp([p EXCEPT !.deletedPages =
                     SubSeq(p.deletedPages, 1, Len(p.deletedPages) - 1)],
                 pageID, data), LAMBDA w :
  [p |-> w.p, id |-> IF w.err = "ok" THEN pageID ELSE 0 - 1, err |-> w.err]))

\* the loop of GetPage over the slots after the first
RECURSIVE followPages(_, _, _)
followPages(slots, nextPage, fuel) ==
  IF fuel = 0 \/ nextPage < 0 \/ nextPage >= Len(slots) THEN <<>>
  ELSE With(At(slots, nextPage), LAMBDA slot :
       IF ~slot.ok \/ slot.next = 0 - 1 THEN slot.data
       ELSE slot.data \o followPages(slots, slot.next, fuel - 1))

\* GetPage: [data, err]
GetPage(p, pageID) ==
  IF \E i \in 1..Len(p.deletedPages) : p.deletedPages[i] = pageID
    THEN [data |-> <<>>, err |-> "ok"]
  ELSE IF pageID < 0 \/ pageID >= Len(p.slots) THEN [data |-> <<>>, err |-> "error"]
  ELSE With(At(p.slots, pageID), LAMBDA slot :
       IF ~slot.ok THEN [data |-> <<>>, err |-> "error"]
       ELSE IF slot.next = 0 - 1 THEN [data |-> slot.data, err |-> "ok"]
       ELSE [data |-> slot.data \o followPages(p.slots, slot.next, Len(p.slots)),
             err |-> "ok"])

(***************************************************************************)
(* The state machine: a client that puts, deletes and removes.             *)
(*   file   the tree file                                                  *)
(*   last   the last operation: its name and arguments, how it ended, and  *)
(*          what Get(k) returned just before it                            *)
(*   live   the keys put and not deleted since                             *)
(*   clean  no operation has failed so far (Remove may answer not found)   *)
(*   used   the names of the operations made so far                        *)
(*   run    the values of the successful Puts made in a row to last.k,     *)
(*          with no other operation in between                             *)
(*   budget the number of operations the session may still make            *)
(*   it     the iterator of the client, if it has one                       *)
(***************************************************************************)
\* the pager is not open
NoPager ==
  [slots |-> <<>>, deletedPages |-> <<>>, del |-> <<>>, kept |-> <<>>,
   last |-> [op |-> "none", id |-> 0, data |-> <<>>, err |-> "ok"], budget |-> 0]

\* Open has given no tree
NoHandle == [open |-> FALSE, T |-> 0, err |-> "none"]

\* the tree Open gives for degree t
Opened(t) == [open |-> TRUE, T |-> t, err |-> "ok"]

\* Open that refuses only a degree below 1
OpenOpFromOne(t) ==
  IF t < 1 THEN [open |-> FALSE, T |-> 0, err |-> "error"] ELSE Opened(t)

\* Open, on a path where the file can be made: a degree below 2 is refused
OpenOp(t) ==
  IF t < 2 THEN [open |-> FALSE, T |-> 0, err |-> "error"] ELSE Opened(t)

\* no goroutine calls the tree
NoThreads ==
  [th |-> <<>>, PageLocks |-> <<>>, held |-> {}, nextLock |-> 1, TreeLock |-> 0,
   file0 |-> <<>>]

\* there is no iterator
NoIterator ==
  [key |-> 0, node |-> Hole, keyIndex |-> 0, valIndex |-> 0, out |-> <<>>,
   err |-> "none"]

\* Open creates the file: the tree is empty, page 0 is not written yet
NewFile ==
  /\ file = <<>>
  /\ last = [op |-> "Open", k |-> 0, v |-> 0, err |-> "ok", before |-> <<>>]
  /\ live = {}
  /\ clean = TRUE
  /\ used = {}
  /\ run = <<>>
  /\ budget = MaxOps
  /\ it = NoIterator
  /\ pager = NoPager
  /\ conc = NoThreads
  /\ handle = Opened(T)

\* the file after Put(k, 1), ..., Put(n, 1)
RECURSIVE Loaded(_, _, _)
Loaded(f, k, n) == IF k > n THEN f ELSE Loaded(PutOp(f, k, 1).f, k + 1, n)

\* Open finds the file that Put(1, 1), ..., Put(MaxKey, 1) left
OldFile ==
  /\ file = Loaded(<<>>, 1, MaxKey)
  /\ last = [op |-> "Put", k |-> MaxKey, v |-> 1, err |-> "ok", before |-> <<>>]
  /\ live = Keys
  /\ clean = TRUE
  /\ used = {"Put"}
  /\ run = <<1>>
  /\ budget = MaxMore
  /\ it = NoIterator
  /\ pager = NoPager
  /\ conc = NoThreads
  /\ handle = Opened(T)

\* Open finds the file that Put(1, 1), ..., Put(MaxTallKey, 1) left: a root
\* over two internal nodes over the leaves
TallFile ==
  /\ file = Loaded(<<>>, 1, MaxTallKey)
  /\ last = [op |-> "Put", k |-> MaxTallKey, v |-> 1, err |-> "ok", before |-> <<>>]
  /\ live = 1..MaxTallKey
  /\ clean = TRUE
  /\ used = {"Put"}
  /\ run = <<1>>
  /\ budget = MaxTallOps
  /\ it = NoIterator
  /\ pager = NoPager
  /\ conc = NoThreads
  /\ handle = Opened(T)

\* the file after m more Puts to key k, of the values 2, 1, 2, ...
RECURSIVE Chained(_, _, _)
Chained(f, k, m) ==
  IF m = 0 THEN f ELSE Chained(PutOp(f, k, (m % MaxVal) + 1).f, k, m - 1)

\* Open finds the file of a session that put MaxFill values under key 1, which
\* fill an overflow chain of two pages, and deleted the key: the pages of the
\* chain are marked for reuse
ReuseFile ==
  /\ file = DeleteOp(Chained(<<>>, 1, MaxFill), 1).f
  /\ last = [op |-> "Delete", k |-> 1, v |-> 0, err |-> "ok", before |-> <<>>]
  /\ live = {}
  /\ clean = TRUE
  /\ used = {"Put", "Delete"}
  /\ run = <<>>
  /\ budget = MaxReuseOps
  /\ it = NoIterator
  /\ pager = NoPager
  /\ conc = NoThreads
  /\ handle = Opened(T)

\* Open finds the file that Put(1, 1), Put(2, 1), Put(2, 2), Put(3, 1),
\* Put(4, 1) left: key 2 overflowed in the leaf root and the split of the
\* root moved it, with its overflow page, up into the new root
OverflowFile ==
  /\ file = PutOp(PutOp(Chained(PutOp(<<>>, 1, 1).f, 2, 2), 3, 1).f, 4, 1).f
  /\ last = [op |-> "Put", k |-> 4, v |-> 1, err |-> "ok", before |-> <<>>]
  /\ live = 1..4
  /\ clean = TRUE
  /\ used = {"Put"}
  /\ run = <<1>>
  /\ budget = MaxOverflowOps
  /\ it = NoIterator
  /\ pager = NoPager
  /\ conc = NoThreads
  /\ handle = Opened(T)

\* Open finds the file that Put(1, 1), ..., Put(MaxWideKey, 1) left: a root of
\* 2T-1 keys over the leaves
WideFile ==
  /\ file = Loaded(<<>>, 1, MaxWideKey)
  /\ last = [op |-> "Put", k |-> MaxWideKey, v |-> 1, err |-> "ok", before |-> <<>>]
  /\ live = 1..MaxWideKey
  /\ clean = TRUE
  /\ used = {"Put"}
  /\ run = <<1>>
  /\ budget = MaxWideOps
  /\ it = NoIterator
  /\ pager = NoPager
  /\ conc = NoThreads
  /\ handle = Opened(T)

Init == NewFile \/ OldFile \/ TallFile \/ WideFile \/ ReuseFile \/ OverflowFile

Put(k, v) ==
  LET r == PutOp(file, k, v) IN
  /\ budget > 0
  /\ Len(r.f) <= MaxPages
  /\ file' = r.f
  /\ last' = [op |-> "Put", k |-> k, v |-> v, err |-> r.err,
              before |-> Get(file, k).vals]
  /\ live' = IF r.err = "ok" THEN live \cup {k} ELSE live
  /\ clean' = (clean /\ r.err = "ok")
  /\ used' = used \cup {"Put"}
  /\ run' = IF r.err # "ok" THEN <<>>
            ELSE IF last.op = "Put" /\ last.k = k THEN Append(run, v) ELSE <<v>>
  /\ budget' = budget - 1
  /\ UNCHANGED elsewhere

Delete(k) ==
  LET r == DeleteOp(file, k) IN
  /\ budget > 0
  /\ file' = r.f
  /\ last' = [op |-> "Delete", k |-> k, v |-> 0, err |-> r.err,
              before |-> Get(file, k).vals]
  /\ live' = IF r.err = "ok" THEN live \ {k} ELSE live
  /\ clean' = (clean /\ r.err = "ok")
  /\ used' = used \cup {"Delete"}
  /\ run' = <<>>
  /\ budget' = budget - 1
  /\ UNCHANGED elsewhere

Remove(k, v) ==
  LET r == RemoveOp(file, k, v) IN
  /\ budget > 0
  /\ file' = r.f
  /\ last' = [op |-> "Remove", k |-> k, v |-> v, err |-> r.err,
              before |-> Get(file, k).vals]
  /\ live' = live
  /\ clean' = (clean /\ r.err \in {"ok", "notfound"})
  /\ used' = used \cup {"Remove"}
  /\ run' = <<>>
  /\ budget' = budget - 1
  /\ UNCHANGED elsewhere

Next ==
  \/ \E k \in Keys, v \in Vals : Put(k, v)
  \/ \E k \in Keys : Delete(k)
  \/ \E k \in Keys, v \in Vals : Remove(k, v)

Spec == Init /\ [][Next]_vars

(***************************************************************************)
(* A client that opens the tree: it asks Open for a degree and, when Open  *)
(* gives a tree of the degree T the operations are modelled for, it puts,  *)
(* deletes and removes.  handle is what Open gave.                         *)
(***************************************************************************)
OpenInit ==
  /\ file = <<>>
  /\ last = [op |-> "none", k |-> 0, v |-> 0, err |-> "ok", before |-> <<>>]
  /\ live = {}
  /\ clean = TRUE
  /\ used = {}
  /\ run = <<>>
  /\ budget = MaxOpenOps
  /\ it = NoIterator
  /\ pager = NoPager
  /\ conc = NoThreads
  /\ handle = NoHandle

Open(t) ==
  /\ ~handle.open
  /\ handle' = OpenOp(t)
  /\ last' = [op |-> "Open", k |-> t, v |-> 0, err |-> OpenOp(t).err, before |-> <<>>]
  /\ UNCHANGED <<file, live, clean, used, run, budget, it, pager, conc>>

OpenNext ==
  \/ \E t \in 0..MaxT : Open(t)
  \/ handle.open /\ handle.T = T /\ Next

OpenSpec == OpenInit /\ [][OpenNext]_vars

(***************************************************************************)
(* A client that iterates: it opens a file that Puts have left, makes an   *)
(* iterator for a key and calls Next until Next gives no value.  it.out is *)
(* the values given so far, it.err how the last call ended.                *)
(***************************************************************************)
IterInit ==
  \E n \in 1..MaxKey, k \in 1..MaxKey, m \in 0..MaxChain :
    /\ k <= n
    /\ file = Chained(Loaded(<<>>, 1, n), k, m)
    /\ last = [op |-> "Put", k |-> k, v |-> 1, err |-> "ok", before |-> <<>>]
    /\ live = 1..n
    /\ clean = TRUE
    /\ used = {"Put"}
    /\ run = <<>>
    /\ budget = 0
    /\ it = NoIterator
  /\ pager = NoPager
  /\ conc = NoThreads
  /\ handle = Opened(T)

NewIterator(k) ==
  LET r == NewIteratorFromKey(file, k) IN
  /\ it.err = "none"
  /\ file' = r.f
  /\ it' = [key |-> k, node |-> r.node, keyIndex |-> r.keyIndex,
            valIndex |-> r.valIndex, out |-> <<>>, err |-> r.err]
  /\ UNCHANGED <<client, pager, conc>>

Next_ ==
  LET r == IteratorNext(file, it) IN
  /\ it.err = "ok"
  /\ it' = [key |-> it.key, node |-> r.node, keyIndex |-> r.keyIndex,
            valIndex |-> r.valIndex,
            out |-> IF r.err = "ok" THEN Append(it.out, r.value) ELSE it.out,
            err |-> r.err]
  /\ UNCHANGED <<file, client, pager, conc>>

IterNext ==
  \/ \E k \in Keys : NewIterator(k)
  \/ Next_

IterSpec == IterInit /\ [][IterNext]_vars

(***************************************************************************)
(* A client of the pager: it opens a new data file and writes, overwrites, *)
(* deletes, and closes and opens again.  Of pager,                         *)
(*   kept   is, for the ids that Write returned for data of at most a page *)
(*          with only Writes that returned other ids since, the data       *)
(*   last   is the last call, its arguments and how it ended; the id is    *)
(*          the one Write returned                                         *)
(*   budget is the number of calls the session may still make              *)
(***************************************************************************)
\* the data a client writes: n bytes b
Datas == {[i \in 1..n |-> b] : n \in 0..MaxData, b \in 1..MaxByte}

PageIDs == 0..MaxPageID

\* OpenPager creates the data file and the .del file
NewPager ==
  pager = [NoPager EXCEPT !.last.op = "OpenPager", !.budget = MaxPagerOps]

\* OpenPager finds the files that Write(<<1>>), Write(<<2>>), DeletePage(0),
\* DeletePage(1) and Close left
OldPager ==
  With(WriteOp(WriteOp(NoPager, <<1>>).p, <<2>>).p, LAMBDA w :
  With(DeletePageOp(DeletePageOp(w, 0), 1), LAMBDA d :
  pager = [d EXCEPT !.deletedPages = readDelPages(d.del),
                    !.last.op = "OpenPager", !.budget = MaxPagerOps]))

PagerInit ==
  /\ NewPager \/ OldPager
  /\ file = <<>>
  /\ last = [op |-> "Open", k |-> 0, v |-> 0, err |-> "ok", before |-> <<>>]
  /\ live = {}
  /\ clean = TRUE
  /\ used = {}
  /\ run = <<>>
  /\ budget = 0
  /\ it = NoIterator
  /\ conc = NoThreads
  /\ handle = NoHandle

\* the calls of a session end with a panic
Running == pager.budget > 0 /\ pager.last.err # "crash"

\* kept without the id
Forget(kept, id) == SelectSeq(kept, LAMBDA e : e.id # id)

Write(data) ==
  LET r == WriteOp(pager, data) IN
  /\ Running
  /\ Len(r.p.slots) <= MaxPageID + 2
  /\ pager' = [r.p EXCEPT
       !.kept = IF r.err # "ok" THEN <<>>
                ELSE IF Len(data) <= PageBytes
                  THEN Append(Forget(pager.kept, r.id), [id |-> r.id, data |-> data])
                ELSE Forget(pager.kept, r.id),
       !.last = [op |-> "Write", id |-> r.id, data |-> data, err |-> r.err],
       !.budget = pager.budget - 1]
  /\ UNCHANGED <<file, client, it, conc>>

WriteTo(id, data) ==
  LET r == WriteToOp(pager, id, data) IN
  /\ Running
  /\ Len(r.p.slots) <= MaxPageID + 2
  /\ pager' = [r.p EXCEPT
       !.kept = <<>>,
       !.last = [op |-> "WriteTo", id |-> id, data |-> data, err |-> r.err],
       !.budget = pager.budget - 1]
  /\ UNCHANGED <<file, client, it, conc>>

DeletePage(id) ==
  /\ Running
  /\ pager' = [DeletePageOp(pager, id) EXCEPT
       !.kept = <<>>,
       !.last = [op |-> "DeletePage", id |-> id, data |-> <<>>, err |-> "ok"],
       !.budget = pager.budget - 1]
  /\ UNCHANGED <<file, client, it, conc>>

\* Close writes the list to the .del file, OpenPager reads it
Reopen ==
  /\ Running
  /\ pager' = [pager EXCEPT
       !.del = writeDelPages(pager.deletedPages),
       !.deletedPages = readDelPages(writeDelPages(pager.deletedPages)),
       !.kept = <<>>,
       !.last = [op |-> "OpenPager", id |-> 0, data |-> <<>>, err |-> "ok"],
       !.budget = pager.budget - 1]
  /\ UNCHANGED <<file, client, it, conc>>

PagerNext ==
  \/ \E data \in Datas : Write(data)
  \/ \E id \in PageIDs, data \in Datas : WriteTo(id, data)
  \/ \E id \in PageIDs : DeletePage(id)
  \/ Reopen

PagerSpec == PagerInit /\ [][PagerNext]_vars

(***************************************************************************)
(* Goroutines that call the tree at the same time: each makes one call,    *)
(* Put(k, t) or Delete(k), and the steps of the calls interleave.  Of conc,*)
(*   th[t]     is the call of goroutine t: where it is (pc), the root it   *)
(*             read, the lock it looked up or made, how it ended           *)
(*   PageLocks is the map of the page locks, from page number to lock      *)
(*   held      is the locks that are locked                                *)
(*   nextLock  numbers the locks made                                      *)
(*   TreeLock  is the goroutine that has locked TreeLock, or 0             *)
(*   file0     is the file the goroutines found                            *)
(* A call is cut into steps where it reads or writes what the goroutines   *)
(* share.  The work of Put under the lock of the root and the work of      *)
(* Delete on the tree are one step each; the locks of the pages below the  *)
(* root, taken and released within those steps, are not told apart.        *)
(***************************************************************************)
Threads == 1..NumThreads

\* Open makes a lock for each page of the file
OpenLocks(f) == [p \in 0..(Len(f) - 1) |-> p + 1]

ConcInit ==
  /\ \E f \in {<<>>, Loaded(<<>>, 1, MaxKey)},
        calls \in [Threads -> {"Put", "Delete", "Get"} \X Keys] :
       /\ file = f
       /\ conc = [th |-> [t \in Threads |->
                           [pc |-> IF calls[t][1] = "Put" THEN "getRoot"
                                   ELSE IF calls[t][1] = "Get" THEN "Get.getRoot"
                                   ELSE "TreeLock",
                            op |-> calls[t][1], k |-> calls[t][2], v |-> t,
                            root |-> Hole, lock |-> 0, err |-> "ok", vals |-> <<>>]],
                  PageLocks |-> OpenLocks(f), held |-> {}, nextLock |-> Len(f) + 1,
                  TreeLock |-> 0, file0 |-> f]
  /\ last = [op |-> "Open", k |-> 0, v |-> 0, err |-> "ok", before |-> <<>>]
  /\ live = {}
  /\ clean = TRUE
  /\ used = {}
  /\ run = <<>>
  /\ budget = 0
  /\ it = NoIterator
  /\ pager = NoPager
  /\ handle = Opened(T)

At_(t, pc) == conc.th[t].pc = pc

\* the map with the lock for the page
WithLock(locks, page, lock) ==
  [p \in DOMAIN locks \cup {page} |-> IF p = page THEN lock ELSE locks[p]]

\* Put: root, err := b.getRoot()
PutGetRoot(t) ==
  LET g == getRoot(file) IN
  /\ At_(t, "getRoot")
  /\ file' = g.f
  /\ conc' = [conc EXCEPT !.th[t].root = g.node, !.th[t].err = g.err,
                          !.th[t].pc = IF g.err = "ok" THEN "getPageLock" ELSE "done"]
  /\ UNCHANGED <<client, it, pager>>

\* getPageLock: lock, ok := b.PageLocks[pageno]
PutFindLock(t) ==
  LET page == conc.th[t].root.Page IN
  /\ At_(t, "getPageLock")
  /\ conc' = IF page \in DOMAIN conc.PageLocks
             THEN [conc EXCEPT !.th[t].lock = conc.PageLocks[page], !.th[t].pc = "Lock"]
             ELSE [conc EXCEPT !.th[t].pc = "newLock"]
  /\ UNCHANGED <<file, client, it, pager>>

\* getPageLock: b.PageLocks[pageno] = &sync.RWMutex{}
PutMakeLock(t) ==
  /\ At_(t, "newLock")
  /\ conc' = [conc EXCEPT
       !.PageLocks = WithLock(conc.PageLocks, conc.th[t].root.Page, conc.nextLock),
       !.nextLock = conc.nextLock + 1,
       !.th[t].lock = conc.nextLock, !.th[t].pc = "Lock"]
  /\ UNCHANGED <<file, client, it, pager>>

\* two goroutines write the map at once: the runtime may end the program
\* with "fatal error: concurrent map writes"
MapFault ==
  /\ \E t, u \in Threads : t # u /\ At_(t, "newLock") /\ At_(u, "newLock")
  /\ conc' = [conc EXCEPT !.th = [t \in Threads |->
                [conc.th[t] EXCEPT !.pc = "dead", !.err = "crash"]]]
  /\ UNCHANGED <<file, client, it, pager>>

\* Put: rootLock.Lock()
PutLock(t) ==
  /\ At_(t, "Lock")
  /\ conc.th[t].lock \notin conc.held
  /\ conc' = [conc EXCEPT !.held = conc.held \cup {conc.th[t].lock},
                          !.th[t].pc = "locked"]
  /\ UNCHANGED <<file, client, it, pager>>

\* Put, from the lock of the root to the return, which unlocks the root
PutBody(t) ==
  LET r == PutLocked(file, conc.th[t].root, conc.th[t].k, conc.th[t].v) IN
  /\ At_(t, "locked")
  /\ file' = r.f
  /\ conc' = [conc EXCEPT !.held = conc.held \ {conc.th[t].lock},
                          !.th[t].err = r.err, !.th[t].pc = "done"]
  /\ UNCHANGED <<client, it, pager>>

\* Get: root, err := b.getRoot()
GetGetRoot(t) ==
  LET g == getRoot(file) IN
  /\ At_(t, "Get.getRoot")
  /\ file' = g.f
  /\ conc' = [conc EXCEPT !.th[t].root = g.node, !.th[t].err = g.err,
                          !.th[t].pc = IF g.err = "ok" THEN "Get.getPageLock" ELSE "done"]
  /\ UNCHANGED <<client, it, pager>>

\* searchKey on the root, getPageLock: lock, ok := b.PageLocks[pageno]
GetFindLock(t) ==
  LET page == conc.th[t].root.Page IN
  /\ At_(t, "Get.getPageLock")
  /\ conc' = IF page \in DOMAIN conc.PageLocks
             THEN [conc EXCEPT !.th[t].lock = conc.PageLocks[page], !.th[t].pc = "RLock"]
             ELSE [conc EXCEPT !.th[t].pc = "Get.newLock"]
  /\ UNCHANGED <<file, client, it, pager>>

\* searchKey on the root, getPageLock: b.PageLocks[pageno] = &sync.RWMutex{}
GetMakeLock(t) ==
  /\ At_(t, "Get.newLock")
  /\ conc' = [conc EXCEPT
       !.PageLocks = WithLock(conc.PageLocks, conc.th[t].root.Page, conc.nextLock),
       !.nextLock = conc.nextLock + 1,
       !.th[t].lock = conc.nextLock, !.th[t].pc = "RLock"]
  /\ UNCHANGED <<file, client, it, pager>>

\* searchKey on the root the goroutine read, from nodeLock.RLock() to the
\* return, which unlocks: no goroutine has the lock locked for writing
GetSearch(t) ==
  LET r == searchKey(file, conc.th[t].k, conc.th[t].root, Fuel(file)) IN
  /\ At_(t, "RLock")
  /\ conc.th[t].lock \notin conc.held
  /\ conc' = [conc EXCEPT !.th[t].vals = r.vals, !.th[t].err = r.err,
                          !.th[t].pc = "done"]
  /\ UNCHANGED <<file, client, it, pager>>

\* Delete: b.TreeLock.Lock()
DeleteLock(t) ==
  /\ At_(t, "TreeLock")
  /\ conc.TreeLock = 0
  /\ conc' = [conc EXCEPT !.TreeLock = t, !.th[t].pc = "PageLocks"]
  /\ UNCHANGED <<file, client, it, pager>>

\* Delete: b.PageLocks = make(map[int64]*sync.RWMutex)
DeleteResetLocks(t) ==
  /\ At_(t, "PageLocks")
  /\ conc' = [conc EXCEPT !.PageLocks = <<>>, !.th[t].pc = "deleteKey"]
  /\ UNCHANGED <<file, client, it, pager>>

\* Delete: getRoot and deleteKey; an error returns and unlocks TreeLock
DeleteBody(t) ==
  LET r == DeleteOp(file, conc.th[t].k) IN
  /\ At_(t, "deleteKey")
  /\ file' = r.f
  /\ conc' = IF r.err = "ok" THEN [conc EXCEPT !.th[t].pc = "recreate"]
             ELSE [conc EXCEPT !.th[t].err = r.err, !.th[t].pc = "done",
                               !.TreeLock = 0]
  /\ UNCHANGED <<client, it, pager>>

\* the byte offsets 0, PAGE_SIZE, ... below the size of the file
Offsets(f) == {p * PAGE_SIZE : p \in 0..(Len(f) - 1)}

\* the locks getPageLock makes for the offsets that have none, numbered from n
RECURSIVE MakeLocks(_, _, _)
MakeLocks(locks, offsets, n) ==
  IF offsets = {} THEN locks
  ELSE With(CHOOSE o \in offsets : \A q \in offsets : o <= q, LAMBDA o :
       IF o \in DOMAIN locks THEN MakeLocks(locks, offsets \ {o}, n)
       ELSE MakeLocks(WithLock(locks, o, n), offsets \ {o}, n + 1))

\* Delete: getPageLock(i) for i = 0, PAGE_SIZE, ... below the size of the
\* file; the return unlocks TreeLock
DeleteRecreateLocks(t) ==
  /\ At_(t, "recreate")
  /\ conc' = [conc EXCEPT
       !.PageLocks = MakeLocks(conc.PageLocks, Offsets(file), conc.nextLock),
       !.nextLock = conc.nextLock + Cardinality(Offsets(file) \ DOMAIN conc.PageLocks),
       !.th[t].pc = "done", !.TreeLock = 0]
  /\ UNCHANGED <<file, client, it, pager>>

ConcNext ==
  \/ \E t \in Threads : PutGetRoot(t)
  \/ \E t \in Threads : PutFindLock(t)
  \/ \E t \in Threads : PutMakeLock(t)
  \/ MapFault
  \/ \E t \in Threads : PutLock(t)
  \/ \E t \in Threads : PutBody(t)
  \/ \E t \in Threads : GetGetRoot(t)
  \/ \E t \in Threads : GetFindLock(t)
  \/ \E t \in Threads : GetMakeLock(t)
  \/ \E t \in Threads : GetSearch(t)
  \/ \E t \in Threads : DeleteLock(t)
  \/ \E t \in Threads : DeleteResetLocks(t)
  \/ \E t \in Threads : DeleteBody(t)
  \/ \E t \in Threads : DeleteRecreateLocks(t)

ConcSpec == ConcInit /\ [][ConcNext]_vars

(***************************************************************************)
(* Goroutines that call Write of the pager at the same time, each once.  Of*)
(* conc, th[t] is the call of goroutine t: where it is (pc), its data, the *)
(* page id it has chosen, how it ended; held is the ids whose page lock is *)
(* locked.  Write chooses the id with no lock held; WriteTo, from          *)
(* DeletePage to its return, is one step under the lock of the page.       *)
(***************************************************************************)
PagerConcInit ==
  /\ NewPager \/ OldPager
  /\ \E datas \in [Threads -> Datas] :
       conc = [th |-> [t \in Threads |->
                        [pc |-> "len", data |-> datas[t], id |-> 0 - 1, err |-> "ok"]],
               held |-> {}]
  /\ file = <<>>
  /\ last = [op |-> "Open", k |-> 0, v |-> 0, err |-> "ok", before |-> <<>>]
  /\ live = {}
  /\ clean = TRUE
  /\ used = {}
  /\ run = <<>>
  /\ budget = 0
  /\ it = NoIterator
  /\ handle = NoHandle

\* a panic in one goroutine ends the program
Panic(t) ==
  [conc EXCEPT !.th = [u \in Threads |->
     [conc.th[u] EXCEPT !.pc = "dead", !.err = IF u = t THEN "crash" ELSE @]]]

\* Write: if len(p.deletedPages) > 0
WriteLen(t) ==
  /\ At_(t, "len")
  /\ conc' = [conc EXCEPT !.th[t].pc = IF Len(pager.deletedPages) > 0 THEN "last" ELSE "Stat"]
  /\ UNCHANGED <<file, client, it, pager>>

\* Write: pageID := p.deletedPages[len(p.deletedPages)-1]
WriteLast(t) ==
  /\ At_(t, "last")
  /\ conc' = IF Len(pager.deletedPages) = 0 THEN Panic(t)
             ELSE [conc EXCEPT !.th[t].id = pager.deletedPages[Len(pager.deletedPages)],
                               !.th[t].pc = "shrink"]
  /\ UNCHANGED <<file, client, it, pager>>

\* Write: p.deletedPages = p.deletedPages[:len(p.deletedPages)-1]
WriteShrink(t) ==
  /\ At_(t, "shrink")
  /\ conc' = IF Len(pager.deletedPages) = 0 THEN Panic(t)
             ELSE [conc EXCEPT !.th[t].pc = "WriteTo"]
  /\ pager' = [pager EXCEPT !.deletedPages = SubSeq(@, 1, Len(@) - 1)]
  /\ UNCHANGED <<file, client, it>>

\* Write: p.file.Stat(); the id is the number of slots of the file
WriteStat(t) ==
  /\ At_(t, "Stat")
  /\ conc' = [conc EXCEPT !.th[t].id = Len(pager.slots), !.th[t].pc = "WriteTo"]
  /\ UNCHANGED <<file, client, it, pager>>

\* WriteTo: p.getPageLock(pageID).Lock()
WriteToLock(t) ==
  /\ At_(t, "WriteTo")
  /\ conc.th[t].id \notin conc.held
  /\ conc' = [conc EXCEPT !.held = conc.held \cup {conc.th[t].id},
                          !.th[t].pc = "locked"]
  /\ UNCHANGED <<file, client, it, pager>>

\* WriteTo under the lock of the page, and the return of Write
WriteToBody(t) ==
  LET r == WriteToOp(pager, conc.th[t].id, conc.th[t].data) IN
  /\ At_(t, "locked")
  /\ pager' = r.p
  /\ conc' = IF r.err = "crash" THEN Panic(t)
             ELSE [conc EXCEPT !.held = conc.held \ {conc.th[t].id},
                               !.th[t].err = r.err, !.th[t].pc = "done"]
  /\ UNCHANGED <<file, client, it>>

PagerConcNext ==
  \/ \E t \in Threads : WriteLen(t)
  \/ \E t \in Threads : WriteLast(t)
  \/ \E t \in Threads : WriteShrink(t)
  \/ \E t \in Threads : WriteStat(t)
  \/ \E t \in Threads : WriteToLock(t)
  \/ \E t \in Threads : WriteToBody(t)

PagerConcSpec == PagerConcInit /\ [][PagerConcNext]_vars

\* goroutines that call Put and Get only, under a scheduler that lets a
\* goroutine that can take a step take one in the end
ReadWriteInit == ConcInit /\ \A t \in Threads : conc.th[t].op # "Delete"

ReadWriteNext ==
  \/ \E t \in Threads : PutGetRoot(t)
  \/ \E t \in Threads : PutFindLock(t)
  \/ \E t \in Threads : PutMakeLock(t)
  \/ MapFault
  \/ \E t \in Threads : PutLock(t)
  \/ \E t \in Threads : PutBody(t)
  \/ \E t \in Threads : GetGetRoot(t)
  \/ \E t \in Threads : GetFindLock(t)
  \/ \E t \in Threads : GetMakeLock(t)
  \/ \E t \in Threads : GetSearch(t)

\* the steps of goroutine t up to the lock of the root, and the search of Get
Step(t) ==
  \/ PutGetRoot(t) \/ PutFindLock(t) \/ PutMakeLock(t) \/ PutLock(t)
  \/ GetGetRoot(t) \/ GetFindLock(t) \/ GetMakeLock(t) \/ GetSearch(t)

\* PutBody(t) can be taken exactly when goroutine t is at "locked", and takes
\* it from there for good: weak fairness of PutBody(t) is that the goroutine
\* is not at "locked" for ever
ConcFairSpec ==
  /\ ReadWriteInit /\ [][ReadWriteNext]_vars
  /\ \A t \in Threads : WF_vars(Step(t)) /\ []<>~At_(t, "locked")

(***************************************************************************)
(* The shape of the tree in the file.                                      *)
(***************************************************************************)
Elems(s) == {s[i] : i \in 1..Len(s)}

\* the pages of the nodes reached from a set of pages through Children
RECURSIVE Reach(_, _, _)
Reach(f, frontier, seen) ==
  LET cur == {p \in frontier \ seen : Readable(f, p)} IN
  IF cur = {} THEN seen
  ELSE Reach(f, UNION {Elems(getPage(f, p).Children) : p \in cur}, seen \cup cur)

\* the pages of the nodes of the tree: the root is page 0
TreePages(f) == Reach(f, {0}, {})

\* the positions (page, index) of the tree that hold key k
Positions(f, k) ==
  {<<p, i>> \in TreePages(f) \X (1..(2 * T)) :
     i <= Len(getPage(f, p).Keys) /\ getPage(f, p).Keys[i].K = k}

\* the keys held in the subtree under page p
RECURSIVE SubtreeKeys(_, _, _)
SubtreeKeys(f, p, fuel) ==
  IF fuel = 0 \/ ~Readable(f, p) THEN {}
  ELSE {getPage(f, p).Keys[i].K : i \in 1..Len(getPage(f, p).Keys)}
         \cup UNION {SubtreeKeys(f, c, fuel - 1) : c \in Elems(getPage(f, p).Children)}

\* the depths of the leaves under page p, itself at depth d
RECURSIVE LeafDepths(_, _, _, _)
LeafDepths(f, p, d, fuel) ==
  IF fuel = 0 \/ ~Readable(f, p) THEN {}
  ELSE IF getPage(f, p).Leaf THEN {d}
  ELSE UNION {LeafDepths(f, c, d + 1, fuel - 1) : c \in Elems(getPage(f, p).Children)}

\* the members of a set of integers in ascending order
RECURSIVE Ascending(_)
Ascending(S) ==
  IF S = {} THEN <<>>
  ELSE LET m == CHOOSE x \in S : \A y \in S : x <= y IN <<m>> \o Ascending(S \ {m})

NoDups(s) == \A i, j \in 1..Len(s) : i # j => s[i] # s[j]

(***************************************************************************)
(* The contract of the operations.                                         *)
(***************************************************************************)
\* C1: after any sequence of Puts, Removes and Deletes that all succeeded, a
\* successful Put(k, v) is followed by a Get(k) that succeeds and returns a
\* list whose last element is v.
C1_PutThenGetEndsWithValue ==
  (clean /\ last.op = "Put") =>
    LET g == Get(file, last.k) IN
    /\ g.err = "ok"
    /\ Len(g.vals) > 0
    /\ g.vals[Len(g.vals)] = last.v

\* C2: Put never creates a second record for a key: in every tree reached by
\* successful operations each key is held at no more than one position (one
\* node, one index), and a Put on a key that Get finds leaves the key at the
\* one position it had.
C2_OneRecordPerKey ==
  clean => \A k \in Keys : Cardinality(Positions(file, k)) <= 1

\* C3: when a key that is present is deleted and Delete returns no error, a
\* Get of that key right after returns an empty result.
C3_GetAfterDeleteIsEmpty ==
  (clean /\ last.op = "Delete" /\ last.before # <<>>) =>
    Get(file, last.k) = [vals |-> <<>>, err |-> "ok"]

\* C4: when the values of key k are pairwise distinct and v is one of them,
\* after Remove(k, v) a Get(k) returns a list that does not hold v and is
\* exactly one element shorter than before.
C4_RemoveTakesOneValue ==
  (clean /\ last.op = "Remove" /\ NoDups(last.before) /\ last.v \in Elems(last.before)) =>
    LET g == Get(file, last.k) IN
    /\ g.err = "ok"
    /\ last.v \notin Elems(g.vals)
    /\ Len(g.vals) = Len(last.before) - 1

\* C5: after any sequence of successful Puts and Deletes, the keys returned by
\* a Range over the whole key domain are, as a set, the keys that were put
\* and not deleted afterwards.
C5_RangeKeysAreLiveKeys ==
  (clean /\ used \subseteq {"Put", "Delete"}) =>
    LET r == Range(file, 1, MaxTallKey) IN
    /\ r.err = "ok"
    /\ Elems(r.keys) = live

\* C6: for every tree built by successful Puts alone, Range(start, end)
\* returns exactly the keys K of the tree with start <= K <= end, each once,
\* in strictly ascending order.
C6_RangeIsAscendingInterval ==
  (clean /\ used \subseteq {"Put"}) =>
    \A start, end \in Keys :
      Range(file, start, end) =
        [keys |-> Ascending({k \in live : start <= k /\ k <= end}), err |-> "ok"]

\* C7: when the same key receives n successful Puts in a row, with no other
\* operation in between, Get of that key returns all n values in the order
\* they were put (they are the last n values of the list).
C7_ConsecutivePutsKeepOrder ==
  (clean /\ last.op = "Put") =>
    LET g == Get(file, last.k) IN
    /\ g.err = "ok"
    /\ Len(g.vals) >= Len(run)
    /\ SubSeq(g.vals, Len(g.vals) - Len(run) + 1, Len(g.vals)) = run

\* C8: after every successful mutation (Put, Remove or Delete), in every
\* internal node keys[i] is strictly greater than every key in the subtree
\* children[i] and strictly less than every key in the subtree children[i+1].
C8_KeysSeparateSubtrees ==
  clean =>
    \A p \in TreePages(file) :
      LET x == getPage(file, p) IN
      \A i \in 1..Len(x.Keys) :
        /\ i <= Len(x.Children) =>
             \A k \in SubtreeKeys(file, x.Children[i], Fuel(file)) : k < x.Keys[i].K
        /\ i + 1 <= Len(x.Children) =>
             \A k \in SubtreeKeys(file, x.Children[i + 1], Fuel(file)) : k > x.Keys[i].K

\* C9: after successful operations every node of the tree other than the
\* root holds at least T-1 and at most 2T-1 keys.
C9_NodeOccupancy ==
  clean =>
    \A p \in TreePages(file) \ {0} :
      /\ Len(getPage(file, p).Keys) >= T - 1
      /\ Len(getPage(file, p).Keys) <= 2 * T - 1

\* C10: after successful operations all leaves of the tree are at the same
\* depth, and every child page id stored in a node is the id of a page that
\* decodes to a node, the node whose own Page is that id.
C10_BalancedAndChildIdsValid ==
  clean =>
    /\ Cardinality(LeafDepths(file, 0, 0, Fuel(file))) <= 1
    /\ \A p \in TreePages(file) :
         \A c \in Elems(getPage(file, p).Children) :
           Readable(file, c) /\ getPage(file, c).Page = c

\* C11: after successful Puts and Deletes the root is at page 0: page 0
\* decodes to a node whose own Page is 0, every key put and not deleted since
\* is held in the subtree under page 0, and no node of the tree lists page 0
\* among its children.
C11_RootStaysAtPageZero ==
  (clean /\ used \subseteq {"Put", "Delete"} /\ used # {}) =>
    /\ Readable(file, 0)
    /\ getPage(file, 0).Page = 0
    /\ live \subseteq SubtreeKeys(file, 0, Fuel(file))
    /\ \A p \in TreePages(file) : 0 \notin Elems(getPage(file, p).Children)

\* C14: Get of a key that is not in the tree (never put, or put and deleted
\* since, or the tree is new) returns an empty list and no error.
C14_GetOfMissingKeyIsEmpty ==
  clean => \A k \in Keys \ live : Get(file, k) = [vals |-> <<>>, err |-> "ok"]

\* g answers every Get and Range as f does and holds the pages of f as they
\* were
SameTree(f, g) ==
  /\ Len(g) >= Len(f)
  /\ \A p \in 1..Len(f) : g[p] = f[p]
  /\ \A k \in 1..MaxTallKey : Get(g, k) = Get(f, k)
  /\ \A start, end \in 1..MaxTallKey : Range(g, start, end) = Range(f, start, end)

\* C15: a Delete of a key that no node of the tree holds returns no error
\* and changes no page, so that every Get and Range answers as before.
C15_DeleteOfMissingKeyIsNoOp ==
  [][(clean /\ budget' = budget - 1 /\ last'.op = "Delete"
        /\ Positions(file, last'.k) = {})
       => (last'.err = "ok" /\ SameTree(file, file'))]_vars

\* C16: Remove(k, v) returns no error when k is in the tree, in the root or
\* in any other node, and v is one of its values; it returns the not-found
\* error and leaves the tree as it was when k is absent or v is not one of
\* the values of k.
C16_RemoveReportsWhatItFound ==
  [][(clean /\ budget' = budget - 1 /\ last'.op = "Remove")
       => IF last'.v \in Elems(Get(file, last'.k).vals)
          THEN last'.err = "ok"
          ELSE last'.err = "notfound" /\ SameTree(file, file')]_vars

\* C17: an iterator made for a key gives, call after call of Next, exactly
\* the values Get gives for the key, in Get's order, and then reports the
\* end; it gives no value of another key and the calls do not fail
C17_IteratorYieldsValuesOfItsKey ==
  (it.err \in {"ok", "end", "error", "crash"} /\ Get(file, it.key).err = "ok") =>
    LET vals == Get(file, it.key).vals IN
    /\ it.err \in {"ok", "end"}
    /\ Len(it.out) <= Len(vals)
    /\ it.out = SubSeq(vals, 1, Len(it.out))
    /\ it.err = "end" => it.out = vals

\* C18: GetPage of an id that Write returned for data of at most a page gives
\* the data and then zeros up to the page size, also after further Writes
\* that returned other ids
C18_GetPageGivesWhatWriteStored ==
  \A i \in 1..Len(pager.kept) :
    GetPage(pager, pager.kept[i].id)
      = [data |-> Pad(pager.kept[i].data), err |-> "ok"]

\* the id is in the list of deleted pages
Freed(p, id) == \E i \in 1..Len(p.deletedPages) : p.deletedPages[i] = id

\* C19: Write returns the last id of the list of deleted pages and takes it
\* off the list; when the list is empty it returns the number of slots of
\* the data file
C19_WriteReusesLastFreedPage ==
  [][(pager'.budget = pager.budget - 1 /\ pager'.last.op = "Write") =>
       /\ pager'.last.err = "ok"
       /\ IF pager.deletedPages # <<>>
          THEN /\ pager'.last.id = pager.deletedPages[Len(pager.deletedPages)]
               /\ pager'.deletedPages
                    = SubSeq(pager.deletedPages, 1, Len(pager.deletedPages) - 1)
          ELSE /\ pager'.last.id = Len(pager.slots)
               /\ pager'.deletedPages = <<>>]_vars

\* the data in pages: each chunk with zeros up to the page size
RECURSIVE PadAll(_)
PadAll(chunks) == IF chunks = <<>> THEN <<>> ELSE Pad(Head(chunks)) \o PadAll(Tail(chunks))

\* C20: GetPage of an id gives nothing, and no error, exactly when the id is
\* in the list of deleted pages; a Write or WriteTo that takes the id from
\* the list succeeds, and GetPage of the id then gives the data written
C20_GetPageOfFreedPageIsEmpty ==
  [][(pager'.budget = pager.budget - 1) =>
       /\ pager'.last.err = "ok" =>
            \A id \in PageIDs :
              (GetPage(pager', id) = [data |-> <<>>, err |-> "ok"]) <=> Freed(pager', id)
       /\ \A id \in PageIDs :
            (/\ Freed(pager, id)
             /\ \/ pager'.last.op = "WriteTo" /\ pager'.last.id = id
                \/ /\ pager'.last.op = "Write"
                   /\ pager.deletedPages[Len(pager.deletedPages)] = id)
            => /\ pager'.last.err = "ok"
               /\ GetPage(pager', id)
                    = [data |-> IF pager'.last.data = <<>> THEN Pad(<<>>)
                                ELSE PadAll(splitDataIntoChunks(pager'.last.data)),
                       err |-> "ok"]]_vars

\* the goroutines all call Put
OnlyPuts == conc.th # <<>> /\ \A t \in Threads : conc.th[t].op = "Put"

\* the file after the Puts of the goroutines, one after the other in the order
RECURSIVE InOrder(_, _)
InOrder(f, order) ==
  IF order = <<>> THEN f
  ELSE InOrder(PutOp(f, conc.th[Head(order)].k, conc.th[Head(order)].v).f, Tail(order))

\* the goroutines whose call has returned
Returned == {t \in Threads : conc.th[t].pc = "done"}

\* the orders in which the calls that have returned can have been made
Orders == {o \in UNION {[1..n -> Threads] : n \in 0..NumThreads} :
             /\ {o[i] : i \in 1..Len(o)} = Returned
             /\ Len(o) = Cardinality(Returned)}

\* C12: of Puts made at the same time, those that have returned, all with
\* success, leave the tree that they leave when made one after the other in
\* some order: Get gives for every key what it gives then, so that no Put is
\* lost and a Get that starts after a Put has returned observes it
C12_ConcurrentPutsAreSerializable ==
  (OnlyPuts /\ \A t \in Returned : conc.th[t].err = "ok") =>
    \E order \in Orders :
      \A k \in Keys : Get(file, k) = Get(InOrder(conc.file0, order), k)

\* the goroutine is in Delete and has locked TreeLock
InDelete(t) == conc.th[t].pc \in {"PageLocks", "deleteKey", "recreate"}

\* C13: while a goroutine is in Delete with TreeLock locked, no other
\* goroutine holds the lock of a page, and no other goroutine takes a step
\* that reads or writes a page of the file
C13_DeleteExcludesOtherOperations ==
  [][\A t, u \in Threads :
       (conc.th # <<>> /\ t # u /\ InDelete(t)) =>
         /\ conc.th[u].pc # "locked"
         /\ conc.th'[u].pc # conc.th[u].pc
              => conc.th[u].pc \notin {"getRoot", "locked", "deleteKey"}]_vars

\* C21: Close and then OpenPager give the list of deleted pages that was in
\* memory at Close, the same ids in the same order, and GetPage gives for
\* every page what it gave before Close
C21_ReopenKeepsFreeListAndPages ==
  [][(pager'.budget = pager.budget - 1 /\ pager'.last.op = "OpenPager") =>
       /\ pager'.deletedPages = pager.deletedPages
       /\ \A id \in 0..(MaxPageID + 2) : GetPage(pager', id) = GetPage(pager, id)]_vars

\* the pager was closed and opened with two deleted pages and a page to read
C21_Witness ==
  /\ pager.last.op = "OpenPager"
  /\ pager.budget < MaxPagerOps
  /\ Len(pager.deletedPages) >= 2
  /\ \E id \in PageIDs :
       ~Freed(pager, id) /\ GetPage(pager, id).err = "ok" /\ GetPage(pager, id).data # <<>>

\* C22: Open with a degree below 2 gives an error and no tree; Open with a
\* degree of 2 or more gives a tree and no error
C22_OpenRefusesDegreeBelowTwo ==
  [][last'.op = "Open" /\ last' # last =>
       IF last'.k < 2 THEN ~handle'.open /\ handle'.err = "error"
       ELSE handle'.open /\ handle'.err = "ok" /\ handle'.T = last'.k]_vars

\* Open has refused degree 1
C22_Witness == ~handle.open /\ last.op = "Open" /\ last.k = 1 /\ handle.err = "error"

\* the node with m more keys
Stretched(n, m) == [n EXCEPT !.Keys = n.Keys \o [i \in 1..m |-> NewKey(MaxKey + i, 1)]]

\* the nodes that are encoded: the nodes of the file, each with up to
\* MaxStretch more keys
Encoded ==
  {Stretched(file[p], m) : p \in {q \in 1..Len(file) : file[q] # Hole},
                           m \in 0..MaxStretch}

\* C23: encodeNode gives the error "node too large to encode" exactly for a
\* node whose encoding is longer than PAGE_SIZE and gives PAGE_SIZE bytes
\* otherwise; writePage then changes the page of the node and no other page
\* of the file, and changes nothing when the node is refused
C23_EncodeNodeFillsOnePage ==
  \A n \in Encoded :
    LET e == encodeNode(n)
        w == writePage(file, n)
    IN  IF EncodedSize(n) > PAGE_SIZE
        THEN e.err = "node too large to encode" /\ w = [f |-> file, err |-> "error"]
        ELSE /\ e = [len |-> PAGE_SIZE, err |-> "ok"]
             /\ w.err = "ok"
             /\ Len(w.f) = (IF n.Page < Len(file) THEN Len(file) ELSE n.Page + 1)
             /\ \A q \in 0..(Len(file) - 1) :
                  q # n.Page => getPage(w.f, q) = getPage(file, q)
             /\ getPage(w.f, n.Page) = n

\* the file holds a node that is encoded and one that, with more keys, is
\* refused
C23_Witness ==
  /\ used # {}
  /\ \E n \in Encoded : encodeNode(n).err = "ok" /\ n.Keys # <<>>
  /\ \E n \in Encoded : encodeNode(n).err = "node too large to encode"

\* every key of the tree is held once
HeldOnce(f) == \A k \in 1..MaxTallKey : Cardinality(Positions(f, k)) <= 1

\* the key that takes the place of key i of the internal node at page p when
\* Delete removes it: the predecessor when the left child has T keys or more,
\* or else the successor when the right child has; 0 when neither has
Replacement(f, p, i) ==
  LET x == getPage(f, p)
      y == getPage(f, x.Children[i])
      z == getPage(f, x.Children[i + 1])
  IN  IF Len(y.Keys) >= T THEN getPredecessor(f, y, Fuel(f)).key.K
      ELSE IF Len(z.Keys) >= T THEN getSuccessor(f, z, Fuel(f)).key.K
      ELSE 0

\* C24: when Delete removes a key of an internal node whose left child has T
\* keys or more, the predecessor takes its place and is held exactly once in
\* the tree afterwards; so with the successor when only the right child has
C24_ReplacementIsHeldOnce ==
  [][(/\ clean /\ budget' = budget - 1 /\ last'.op = "Delete"
      /\ HeldOnce(file)
      /\ \E pos \in Positions(file, last'.k) :
           /\ ~getPage(file, pos[1]).Leaf
           /\ Len(getPage(file, pos[1]).Children) > pos[2]
           /\ \A c \in Elems(getPage(file, pos[1]).Children) : Readable(file, c)
           /\ Replacement(file, pos[1], pos[2]) # 0)
     => /\ last'.err = "ok"
        /\ \A pos \in Positions(file, last'.k) :
             /\ Cardinality(Positions(file', Replacement(file, pos[1], pos[2]))) = 1
             /\ \E q \in Positions(file', Replacement(file, pos[1], pos[2])) : q = pos]_vars

\* C25: Delete of a key leaves what Get gives for every other key as it was
C25_DeleteLeavesOtherKeys ==
  [][(clean /\ budget' = budget - 1 /\ last'.op = "Delete" /\ HeldOnce(file))
       => \A k \in 1..MaxTallKey :
            k # last'.k => Get(file', k) = Get(file, k)]_vars

\* C26: after a Put, Delete or Remove the root holds at most 2T-1 keys, and
\* it holds no key only as a leaf, when the tree holds no key; it is never an
\* internal node without keys
C26_RootOccupancy ==
  (clean /\ used # {}) =>
    /\ Readable(file, 0)
    /\ Len(getPage(file, 0).Keys) <= 2 * T - 1
    /\ Len(getPage(file, 0).Keys) = 0
         => getPage(file, 0).Leaf /\ getPage(file, 0).Children = <<>>

\* the number of times e is in the sequence
Count(s, e) == Cardinality({j \in 1..Len(s) : s[j] = e})

\* what C27 says of splitChild(x, i, y) on file f, when it succeeds
SplitAsSpecified(f, x, i, y) ==
  LET s == splitChild(f, x, i, y)
      z == getPage(s.f, Len(f))
  IN  s.err = "ok" =>
        /\ getPage(s.f, y.Page).Keys = SubSeq(y.Keys, 1, T - 1)
        /\ z.Leaf = y.Leaf
        /\ z.Keys = SubSeq(y.Keys, T + 1, 2 * T - 1)
        /\ ~y.Leaf => /\ z.Children = SubSeq(y.Children, T + 1, 2 * T)
                      /\ getPage(s.f, y.Page).Children = SubSeq(y.Children, 1, T)
        /\ At(getPage(s.f, x.Page).Keys, i) = At(y.Keys, T - 1)
        /\ At(getPage(s.f, x.Page).Children, i + 1) = z.Page
        /\ Len(getPage(s.f, x.Page).Keys) = Len(x.Keys) + 1
        /\ \A e \in Elems(x.Keys \o y.Keys) :
             Count(getPage(s.f, x.Page).Keys \o getPage(s.f, y.Page).Keys \o z.Keys, e)
               = Count(x.Keys \o y.Keys, e)

\* a node of 2T-1 keys, with 2T children when it is internal
Full(y) == Len(y.Keys) = 2 * T - 1 /\ (y.Leaf \/ Len(y.Children) = 2 * T)

\* the nodes of the file with a full child: <<page, index of the child>>
FullChildren ==
  {c \in (0..(Len(file) - 1)) \X (0..(2 * T - 1)) :
     /\ Readable(file, c[1])
     /\ ~getPage(file, c[1]).Leaf
     /\ c[2] < Len(getPage(file, c[1]).Children)
     /\ Readable(file, At(getPage(file, c[1]).Children, c[2]))
     /\ getPage(file, At(getPage(file, c[1]).Children, c[2])).Page
          = At(getPage(file, c[1]).Children, c[2])
     /\ getPage(file, c[1]).Page = c[1]
     /\ Full(getPage(file, At(getPage(file, c[1]).Children, c[2])))}

\* C27: splitChild on a child of 2T-1 keys leaves the child its first T-1
\* keys, gives the new sibling, of the same kind, the last T-1 keys and the
\* last T children, puts the median key in the parent at the index of the
\* child and the sibling's page after the child's; the key records of the
\* three nodes together are the same as before.  So for every node of the
\* file with a full child, and for a full root as splitRoot splits it
C27_SplitChildMovesMedianUp ==
  /\ \A c \in FullChildren :
       SplitAsSpecified(file, getPage(file, c[1]), c[2],
                        getPage(file, At(getPage(file, c[1]).Children, c[2])))
  /\ (Readable(file, 0) /\ Full(getPage(file, 0))) =>
       LET nn == newBTreeNode(file, getPage(file, 0).Leaf) IN
       SplitAsSpecified(nn.f,
                        [Page |-> 0, Keys |-> <<>>, Children |-> <<nn.node.Page>>,
                         Leaf |-> FALSE, Reuse |-> FALSE], 0,
                        [nn.node EXCEPT !.Keys = getPage(file, 0).Keys,
                                        !.Children = getPage(file, 0).Children])

\* the root is internal and full, and splitChild splits its copy
C27_Witness ==
  /\ Readable(file, 0) /\ Full(getPage(file, 0)) /\ ~getPage(file, 0).Leaf
  /\ splitRoot(file).err = "ok"

\* the positions (page, index) of the tree whose key record has overflowed
Overflows(f) ==
  {c \in TreePages(f) \X (1..(2 * T)) :
     c[2] <= Len(getPage(f, c[1]).Keys) /\ getPage(f, c[1]).Keys[c[2]].Overflowed}

\* the overflow chain of the key record at position c: [pages, err]
ChainAt(f, c) == getAllOverflowPages(f, getPage(f, c[1]).Keys[c[2]], Fuel(f))

\* C28: every overflow page has one referrer: the chain of a key record ends
\* after finitely many pages, visits no page twice, and shares no page with
\* the chain of another key record; so too after pages were reused
C28_OverflowChainsAreDisjoint ==
  clean =>
    \A c \in Overflows(file) :
      /\ ChainAt(file, c).err = "ok"
      /\ \A i, j \in 1..Len(ChainAt(file, c).pages) :
           ChainAt(file, c).pages[i] = ChainAt(file, c).pages[j] => i = j
      /\ \A d \in Overflows(file) :
           d # c => Elems(ChainAt(file, c).pages) \cap Elems(ChainAt(file, d).pages) = {}

\* C29: when a Put makes a key overflow for the first time onto a page that
\* was marked for reuse, the page is afterwards not marked, holds this key
\* with the value put and nothing else, and Get gives the values held inline
\* and then the value put
C29_ReusedPageHoldsOnlyNewValue ==
  [][(clean /\ budget' = budget - 1 /\ last'.op = "Put" /\ last'.err = "ok"
        /\ HeldOnce(file)) =>
       \A c \in Positions(file, last'.k) : \A d \in Positions(file', last'.k) :
         LET old == getPage(file, c[1]).Keys[c[2]]
             new == getPage(file', d[1]).Keys[d[2]]
         IN (/\ ~old.Overflowed /\ new.Overflowed
             /\ Readable(file, new.OverflowPage)
             /\ getPage(file, new.OverflowPage).Reuse) =>
              /\ Readable(file', new.OverflowPage)
              /\ ~getPage(file', new.OverflowPage).Reuse
              /\ getPage(file', new.OverflowPage).Keys = <<NewKey(last'.k, last'.v)>>
              /\ Get(file', last'.k) = [vals |-> old.V \o <<last'.v>>, err |-> "ok"]]_vars

\* the pages of f marked for reuse
Reusable(f) == {p \in 0..(Len(f) - 1) : Readable(f, p) /\ getPage(f, p).Reuse}

\* C30: a Delete of a key marks for reuse the pages of the overflow chain of
\* the key and no other page
C30_DeleteMarksTheChainOfItsKey ==
  [][(clean /\ budget' = budget - 1 /\ last'.op = "Delete" /\ HeldOnce(file)) =>
       \A c \in Positions(file, last'.k) :
         ChainAt(file, c).err = "ok" =>
           Reusable(file') \ Reusable(file) = Elems(ChainAt(file, c).pages) \ Reusable(file)]_vars

\* the pages linked as overflow pages: from a key record of the tree, or from
\* the record of a page that is itself linked
RECURSIVE Linked(_, _, _)
Linked(f, frontier, seen) ==
  LET cur == frontier \ seen IN
  IF cur = {} THEN seen
  ELSE Linked(f, {getPage(f, p).Keys[i].OverflowPage :
                    <<p, i>> \in {c \in {q \in cur : Readable(f, q)} \X (1..(2 * T)) :
                                    /\ c[2] <= Len(getPage(f, c[1]).Keys)
                                    /\ getPage(f, c[1]).Keys[c[2]].Overflowed}},
              seen \cup cur)

OverflowPages(f) ==
  Linked(f, {getPage(f, c[1]).Keys[c[2]].OverflowPage : c \in Overflows(f)}, {})

\* C31: every page linked as an overflow page holds exactly one key record,
\* is a leaf and has no children
C31_OverflowPageHoldsOneRecord ==
  clean =>
    \A p \in OverflowPages(file) :
      /\ Readable(file, p)
      /\ Len(getPage(file, p).Keys) = 1
      /\ getPage(file, p).Leaf
      /\ getPage(file, p).Children = <<>>

\* s without its first element equal to v
WithoutFirst(s, v) ==
  IF IndexOf(s, v, 1) = 0 THEN s ELSE RemoveAt(s, IndexOf(s, v, 1) - 1)

\* C32: Remove(k, v) of a value that key k holds deletes the first occurrence
\* of v in the order of Get(k), the inline values before the overflow chain,
\* and leaves the other values of k in their order; stated for a key that is
\* held once and has overflowed
C32_RemoveTakesFirstOccurrence ==
  [][(clean /\ budget' = budget - 1 /\ last'.op = "Remove" /\ HeldOnce(file)
        /\ Get(file, last'.k).err = "ok"
        /\ last'.v \in Elems(Get(file, last'.k).vals)
        /\ \E c \in Positions(file, last'.k) : c \in Overflows(file)) =>
       Get(file', last'.k) =
         [vals |-> WithoutFirst(Get(file, last'.k).vals, last'.v), err |-> "ok"]]_vars

\* C33: a Put to a key that has already overflowed, whatever Puts and Deletes
\* of other keys of its node came in between, adds its value after every
\* value put before: Get gives the earlier values and then the new one
C33_LaterValueComesLater ==
  [][(clean /\ budget' = budget - 1 /\ last'.op = "Put" /\ last'.err = "ok"
        /\ HeldOnce(file) /\ HeldOnce(file')
        /\ Get(file, last'.k).err = "ok"
        /\ \E c \in Positions(file, last'.k) : c \in Overflows(file)) =>
       Get(file', last'.k) =
         [vals |-> Append(Get(file, last'.k).vals, last'.v), err |-> "ok"]]_vars

\* C34: WriteTo(id, data) of data longer than a page, cut in n chunks, writes
\* chunk j to slot id+j under a header that names slot id+j+1, and the last
\* chunk under the header -1: GetPage(id) gives the n chunks, the last with
\* zeros up to the page size, and nothing of a slot after them
C34_LastChunkEndsTheChain ==
  [][(pager'.budget = pager.budget - 1 /\ pager'.last.op = "WriteTo"
        /\ pager'.last.err = "ok" /\ Len(pager'.last.data) > PageBytes) =>
       LET id == pager'.last.id
           chunks == splitDataIntoChunks(pager'.last.data)
       IN /\ \A j \in 0..(Len(chunks) - 1) :
               /\ At(pager'.slots, id + j).ok
               /\ At(pager'.slots, id + j).data = Pad(At(chunks, j))
               /\ At(pager'.slots, id + j).next
                    = (IF j < Len(chunks) - 1 THEN id + j + 1 ELSE 0 - 1)
          /\ GetPage(pager', id) = [data |-> PadAll(chunks), err |-> "ok"]]_vars

\* s without the elements equal to e
Without(s, e) == SelectSeq(s, LAMBDA x : x # e)

\* C35: WriteTo(id, data) returns, and then the list of deleted pages is the
\* list as it was without id, the other ids in their order; also when id was
\* in the list before
C35_WriteToTakesIdOffTheList ==
  [][(pager'.budget = pager.budget - 1 /\ pager'.last.op = "WriteTo") =>
       /\ pager'.last.err = "ok"
       /\ pager'.deletedPages = Without(pager.deletedPages, pager'.last.id)]_vars

\* C36: after a Write, WriteTo or DeletePage that returned, the ids in the
\* .del file are the list of deleted pages
C36_DelFileHoldsTheList ==
  [][(pager'.budget = pager.budget - 1 /\ pager'.last.err = "ok"
        /\ pager'.last.op \in {"Write", "WriteTo", "DeletePage"}) =>
       readDelPages(pager'.del) = pager'.deletedPages]_vars

\* C40: the list of deleted pages holds no id twice, and Write returns no id
\* under which a record written before is still kept
C40_WriteReturnsNoLivePage ==
  [][(pager'.budget = pager.budget - 1) =>
       /\ \A i, j \in 1..Len(pager'.deletedPages) :
            pager'.deletedPages[i] = pager'.deletedPages[j] => i = j
       /\ (pager'.last.op = "Write" /\ pager'.last.err = "ok") =>
            \A i \in 1..Len(pager.kept) : pager.kept[i].id # pager'.last.id]_vars

\* C38: a Get of a key that the file held when the goroutines began, made at
\* the same time as a Put of another key, gives the values of the key and
\* never nothing, also when the Put splits a node on the way to the key
C38_GetDuringPutFindsKey ==
  \A t, u \in Threads :
    (/\ conc.th # <<>> /\ t # u
     /\ conc.th[t].op = "Get" /\ conc.th[u].op = "Put" /\ conc.th[u].k # conc.th[t].k
     /\ Get(conc.file0, conc.th[t].k).vals # <<>>
     /\ conc.th[t].pc = "done" /\ conc.th[t].err = "ok")
    => conc.th[t].vals # <<>>

\* every call has returned and no page lock is locked
AllReturned == (\A t \in Threads : conc.th[t].pc = "done") /\ conc.held = {}

\* C39: under fair scheduling, of Puts and Gets begun at the same time every
\* call returns in the end, and no page lock is locked once they have
C39_EveryCallReturns == <>AllReturned

\* C37: two Writes made at the same time that have both returned have
\* returned different page ids, and GetPage of the id of each gives its data
\* (stated for data of at most a page)
C37_ConcurrentWritesGetOwnPages ==
  \A t, u \in Threads :
    (/\ conc.th # <<>> /\ t # u
     /\ conc.th[t].pc = "done" /\ conc.th[t].err = "ok"
     /\ conc.th[u].pc = "done" /\ conc.th[u].err = "ok") =>
      /\ conc.th[t].id # conc.th[u].id
      /\ Len(conc.th[t].data) <= PageBytes =>
           GetPage(pager, conc.th[t].id) = [data |-> Pad(conc.th[t].data), err |-> "ok"]

=============================================================================
